---- MODULE Spec2Model ----
(***************************************************************************)
(* SafeDocs detection-and-disarm pipeline.                                 *)
(*                                                                         *)
(* Documents are abstracted to a container flag and a sequence of tokens,  *)
(* each token standing for one chunk of bytes that the scanner and the     *)
(* sanitizers recognise as a unit.  Scores are integers in millionths      *)
(* (ONE = 1.0), which keeps every weight of the source exact.              *)
(*   engine/core/scan_file.py        scan_bytes and its helpers             *)
(*   engine/core/features_runtime.py the classifier adapter                *)
(*   engine/sanitizers/*.py          the three sanitizers                   *)
(*   engine/api/shared_logic.py      sanitize_with_available_tools          *)
(*   engine/api/api_stateless.py     POST /scan                             *)
(*   engine/api/api_server.py        POST /api/scan                         *)
(*   engine/scripts/scan_file.py     the command-line scanner               *)
(*   engine/api/auth.py              signup, login, oauth-login             *)
(*   engine/api/db.py                the MongoDB collections and buckets    *)
(***************************************************************************)
EXTENDS Integers, Sequences, FiniteSets, TLC

VARIABLES pc, req, report, resp, sanLog, store, trace, procs

vars == <<pc, req, report, resp, sanLog, store, trace, procs>>

\* the database, the steps of the request in progress, and the auth
\* requests in progress
serverVars == <<store, trace, procs>>

\* ------------------------------------------------------------------ bounds
\* longest document body, in tokens
MaxLen == 2

\* 1.0 in millionths
ONE == 1000000

\* ------------------------------------------------------------- documents
\* txt     filler text without any keyword
\* sus5    text holding five of SUSPICIOUS_STRINGS
\*         (eval(, wscript.shell, powershell, cmd.exe, mshta)
\* js      PDF: catalog /OpenAction that points to a /JavaScript action
\* vba     OOXML: a member named vbaProject.bin
\* pict    RTF control word \pict
\* object  RTF control word \object
\* endobj  RTF control word \endobj
\* big     filler text of more than 300000 bytes: what follows it lies
\*         outside data[:200000] and data[:300000]
Tokens == {"txt", "sus5", "js", "vba", "pict", "object", "endobj", "big"}

Range(s) == {s[i] : i \in DOMAIN s}

RECURSIVE SeqsUpTo(_, _)
SeqsUpTo(S, n) ==
    IF n = 0 THEN {<<>>}
    ELSE LET shorter == SeqsUpTo(S, n - 1)
         IN  shorter \cup {Append(s, t) : s \in {x \in shorter : Len(x) = n - 1}, t \in S}

Bodies == SeqsUpTo(Tokens, MaxLen)

\* Optional[bytes]: <<>> is None, <<d>> is the buffer d
None == <<>>
Some(d) == <<d>>
IsNone(o) == o = <<>>

\* len(data) == 0: no container framing and no content, no appended marker
IsEmptyBytes(d) == ~d.wf /\ d.body = <<>> /\ d.marks = 0

\* upload names: stem and suffix
Filenames ==
    { [stem |-> "a", suffix |-> ".pdf"],
      [stem |-> "a", suffix |-> ".docx"],
      [stem |-> "a", suffix |-> ".rtf"],
      [stem |-> "a", suffix |-> ""],
      [stem |-> "",  suffix |-> ".rtf"] }

OOXML_EXTS == {".docx", ".pptx", ".xlsx"}

\* os.path.splitext(name)[1]: a name that is only a dot-suffix has no extension
_ext_from_name(name) == IF name.stem = "" THEN "" ELSE name.suffix

\* fn[fn.rfind("."):]
get_extension(name) == name.suffix

\* the raw uploads: wf says that the container parses (PDF xref / zip
\* directory); formats without a container have no framing
RawData ==
    { [wf |-> w, body |-> b, cdr |-> FALSE, marks |-> 0] : w \in BOOLEAN, b \in Bodies }

\* byte entropy levels in tenths, as _byte_entropy would return them
EntLevels == {0, 10}

Artifacts ==
    { a \in [name : Filenames, data : RawData, ent : EntLevels] :
        /\ (a.data.wf => a.name.suffix \in {".pdf"} \cup OOXML_EXTS)
        /\ (IsEmptyBytes(a.data) => a.ent = 0) }

\* ------------------------------------------------------------ environment
\* fault:   "none" | "heuristics" (_simple_heuristics raises)
\*                 | "fatal" (_extract_findings raises, e.g. on a bytes-like
\*                   buffer that cannot be decoded)
\* libs:    PyPDF2 / lxml importable, i.e. the PDF and OOXML sanitizers exist
Envs == [fault : {"none", "heuristics", "fatal"}, libs : BOOLEAN]


\* -------------------------------------------------------------- sanitizers
\* re.sub(r"\\object\b.*?\\endobj\b", "", txt): leftmost \object up to the
\* first \endobj after it, repeated on the rest
RECURSIVE StripObjectSpans(_)
StripObjectSpans(s) ==
    IF s = <<>> THEN <<>>
    ELSE IF Head(s) = "object" /\ \E j \in 2..Len(s) : s[j] = "endobj"
         THEN LET j == CHOOSE k \in 2..Len(s) :
                           s[k] = "endobj" /\ \A m \in 2..(k - 1) : s[m] # "endobj"
              IN  StripObjectSpans(SubSeq(s, j + 1, Len(s)))
         ELSE <<Head(s)>> \o StripObjectSpans(Tail(s))

\* re.sub(r"\\(objdata|objclass|field|pict)\b", "", txt)
StripControlWords(s) == SelectSeq(s, LAMBDA t : t # "pict")

sanitize_rtf_bytes(d) ==
    [d EXCEPT !.body = StripControlWords(StripObjectSpans(d.body))]

\* sanitize_ooxml: the member loop over a readable zip, "failed" otherwise
sanitize_ooxml(d) ==
    IF d.wf
    THEN [status |-> "ok",
          out |-> [d EXCEPT !.body = SelectSeq(d.body, LAMBDA t : t # "vba"),
                            !.cdr = TRUE]]
    ELSE [status |-> "failed", out |-> d]

sanitize_ooxml_bytes(d) ==
    LET res == sanitize_ooxml(d)
    IN  IF res.status = "ok" THEN res.out ELSE d

\* _neutralize_keyword on every match of EXPANDED_TERMS: the keyword tokens
\* lose their second character, every other token has no match
_scrub_bytes_safely(body) ==
    [i \in DOMAIN body |->
        CASE body[i] = "js"  -> "js_"
          [] body[i] = "vba" -> "vba_"
          [] OTHER           -> body[i]]

\* one entry of the call log: the function and how it ended
Call(fn, status) == [fn |-> fn, status |-> status]

\* variant: no marker comment when the result has the hash of the input
sanitize_pdf_nomarker(d) ==
    IF d.wf
    THEN [status |-> "ok", stage |-> "structural",
          calls |-> <<Call("PdfReader", "ok")>>,
          out |-> [wf |-> TRUE, body |-> SelectSeq(d.body, LAMBDA t : t # "js"),
                   cdr |-> TRUE, marks |-> 0]]
    ELSE [status |-> "ok", stage |-> "byte_scrub",
          calls |-> <<Call("PdfReader", "raised"),
                      Call("_scrub_bytes_safely", "ok")>>,
          out |-> [d EXCEPT !.body = _scrub_bytes_safely(d.body)]]

\* sanitize_pdf: PyPDF2 rebuild of a parsable file (OpenAction dropped, only
\* the pages are copied), else the byte scrub; either way a marker comment is
\* appended when the result has the hash of the input
sanitize_pdf(d) ==
    IF d.wf
    THEN LET cleaned == [wf |-> TRUE,
                         body |-> SelectSeq(d.body, LAMBDA t : t # "js"),
                         cdr |-> TRUE, marks |-> 0]
         IN  [status |-> "ok", stage |-> "structural",
              calls |-> <<Call("PdfReader", "ok")>>,
              out |-> IF cleaned = d THEN [cleaned EXCEPT !.marks = 1] ELSE cleaned]
    ELSE LET cleaned == [d EXCEPT !.body = _scrub_bytes_safely(d.body)]
         IN  [status |-> "ok", stage |-> "byte_scrub",
              calls |-> <<Call("PdfReader", "raised"),
                          Call("_scrub_bytes_safely", "ok")>>,
              out |-> IF cleaned = d THEN [cleaned EXCEPT !.marks = d.marks + 1]
                      ELSE cleaned]

sanitize_pdf_bytes(d) ==
    LET res == sanitize_pdf(d)
    IN  IF res.status = "ok" THEN res.out ELSE d

\* _run_sanitizer: (Optional[bytes], meta) and the calls made, itself first
_run_sanitizer(ext, d, env) ==
    IF ext = ".pdf" /\ env.libs
    THEN [out |-> Some(sanitize_pdf_bytes(d)), meta |-> "pdf",
          calls |-> <<Call("_run_sanitizer", "returned"),
                      Call("sanitize_pdf_bytes", sanitize_pdf(d).status)>>
                    \o sanitize_pdf(d).calls]
    ELSE IF ext \in OOXML_EXTS /\ env.libs
    THEN [out |-> Some(sanitize_ooxml_bytes(d)), meta |-> "ooxml",
          calls |-> <<Call("_run_sanitizer", "returned"),
                      Call("sanitize_ooxml_bytes", sanitize_ooxml(d).status)>>]
    ELSE IF ext = ".rtf"
    THEN [out |-> Some(sanitize_rtf_bytes(d)), meta |-> "rtf",
          calls |-> <<Call("_run_sanitizer", "returned"),
                      Call("sanitize_rtf_bytes", "ok")>>]
    ELSE [out |-> None, meta |-> "none",
          calls |-> <<Call("_run_sanitizer", "returned")>>]

\* ----------------------------------------------------------------- scanner
Min(a, b) == IF a < b THEN a ELSE b
Max(a, b) == IF a > b THEN a ELSE b

\* the SUSPICIOUS_STRINGS a token contains (case-insensitive substring match)
SuspiciousIn(tok) ==
    CASE tok = "sus5" -> {"eval(", "wscript.shell", "powershell", "cmd.exe", "mshta"}
      [] tok = "js"   -> {"javascript"}
      [] OTHER        -> {}

\* data[:300000] (and data[:200000]): the tokens up to the first big one
RECURSIVE Window(_)
Window(body) ==
    IF body = <<>> THEN <<>>
    ELSE IF Head(body) = "big" THEN <<"big">>
    ELSE <<Head(body)>> \o Window(Tail(body))

\* [s for s in SUSPICIOUS_STRINGS if s in low]
SuspiciousHits(body) == UNION {SuspiciousIn(body[i]) : i \in DOMAIN body}

Finding(id, sev) == [id |-> id, severity |-> sev]

\* the pikepdf pass over a parsable PDF: one finding for the catalog triggers,
\* none for the Names tree, one for the deep scan of the objects
PdfStructuralFindings(body) ==
    (IF "js" \in Range(body) THEN <<Finding("pdf_script_js", "high")>> ELSE <<>>)
    \o (IF "js" \in Range(body) THEN <<Finding("pdf_script_js", "high")>> ELSE <<>>)

\* the except branch: first of PDF_JS_PATTERNS found in the raw bytes
PdfRegexFindings(body) ==
    IF "js" \in Range(body) THEN <<Finding("pdf_script_js", "high")>> ELSE <<>>

\* _extract_findings: the string and the OOXML / RTF rules read
\* data[:300000], the PDF rules read all of data
_extract_findings(d, ext) ==
    LET strings == IF SuspiciousHits(Window(d.body)) # {}
                   THEN <<Finding("suspicious_strings", "medium")>> ELSE <<>>
        typed ==
            IF ext = ".pdf"
            THEN (IF d.wf THEN PdfStructuralFindings(d.body)
                  ELSE PdfRegexFindings(d.body))
            ELSE IF ext \in OOXML_EXTS
            THEN (IF "vba" \in Range(Window(d.body))
                  THEN <<Finding("ooxml_vba_macro", "high")>> ELSE <<>>)
            ELSE IF ext = ".rtf"
            THEN (IF Range(Window(d.body)) \cap {"object", "pict"} # {}
                  THEN <<Finding("rtf_embedded_object", "high")>> ELSE <<>>)
            ELSE <<>>
        found == strings \o typed
    IN  IF found = <<>> THEN <<Finding("no_obvious_tricks", "info")>> ELSE found

\* _simple_heuristics, in millionths; ent is _byte_entropy(data) in tenths
_simple_heuristics(d, ent, ext) ==
    LET entropy == ent * (ONE \div 10)
        rules_hits == Cardinality(SuspiciousHits(Window(d.body)))
        rules_score == Min(ONE, (rules_hits * ONE) \div 5)
        type_bias == IF ext \in {".pdf", ".rtf"} THEN 50000
                     ELSE IF ext \in OOXML_EXTS THEN 80000 ELSE 0
        tree_like == Min(ONE, (5 * entropy + 7 * rules_score) \div 10 + type_bias)
        lgbm_like == Min(ONE, (6 * tree_like + 4 * entropy) \div 10)
        dl_like == Min(ONE, (5 * entropy + 6 * rules_score) \div 10)
        meta_score == Max(0, Min(ONE, (25 * tree_like + 35 * lgbm_like
                                       + 30 * dl_like + 10 * rules_score) \div 100))
    IN  [P_TREE |-> tree_like, P_LGBM |-> lgbm_like, P_DL |-> dl_like,
         P_RULES |-> rules_score, P_META |-> meta_score]

\* "from features_runtime import build_features_for_lgbm": the module does
\* not compile (the except of its module-level try is indented under the if),
\* so the import raises and scan_file.py binds the name to None
build_features_for_lgbm == None

SignalOr(signals, k, dflt) == IF k \in DOMAIN signals THEN signals[k] ELSE dflt


EmptyDict == [k \in {} |-> 0]

\* javascript_ids; no finding of _extract_findings has a "text" or
\* "description" key, so has_javascript_in_text is always False
has_javascript(findings) ==
    \E i \in DOMAIN findings :
        findings[i].id \in {"pdf_script_js", "ooxml_macro", "rtf_object"}

\* variant: severity "high" alone decides nothing
has_high_risk_findings_never(findings) == FALSE

has_high_risk_findings(findings) ==
    \E i \in DOMAIN findings : findings[i].severity = "high"

\* variant: the medium-severity branch fires from 0.50 on
has_medium_risk_with_high_score_half(findings, risk_score) ==
    /\ \E i \in DOMAIN findings : findings[i].severity = "medium"
    /\ risk_score >= 500000

has_medium_risk_with_high_score(findings, risk_score) ==
    /\ \E i \in DOMAIN findings : findings[i].severity = "medium"
    /\ risk_score >= 700000

\* variant: the signature branch leaves the blended score in place
Verdict_unforced(findings, risk_score) ==
    IF has_javascript(findings) \/ has_high_risk_findings(findings)
    THEN [verdict |-> "malicious", risk_score |-> risk_score, signature |-> TRUE]
    ELSE IF has_medium_risk_with_high_score(findings, risk_score)
    THEN [verdict |-> "malicious", risk_score |-> risk_score, signature |-> FALSE]
    ELSE IF risk_score >= 850000
    THEN [verdict |-> "malicious", risk_score |-> risk_score, signature |-> FALSE]
    ELSE [verdict |-> "benign", risk_score |-> risk_score, signature |-> FALSE]

\* variant: "100% confidence" written as 100 instead of 1.0
Verdict_percent(findings, risk_score) ==
    IF has_javascript(findings) \/ has_high_risk_findings(findings)
    THEN [verdict |-> "malicious", risk_score |-> 100 * ONE, signature |-> TRUE]
    ELSE IF has_medium_risk_with_high_score(findings, risk_score)
    THEN [verdict |-> "malicious", risk_score |-> risk_score, signature |-> FALSE]
    ELSE IF risk_score >= 850000
    THEN [verdict |-> "malicious", risk_score |-> risk_score, signature |-> FALSE]
    ELSE [verdict |-> "benign", risk_score |-> risk_score, signature |-> FALSE]

\* the if / elif ladder of scan_bytes: verdict, final risk score and whether
\* the signature branch (which also overwrites P_RULES and P_META) was taken
Verdict(findings, risk_score) ==
    IF has_javascript(findings) \/ has_high_risk_findings(findings)
    THEN [verdict |-> "malicious", risk_score |-> ONE, signature |-> TRUE]
    ELSE IF has_medium_risk_with_high_score(findings, risk_score)
    THEN [verdict |-> "malicious", risk_score |-> risk_score, signature |-> FALSE]
    ELSE IF risk_score >= 850000
    THEN [verdict |-> "malicious", risk_score |-> risk_score, signature |-> FALSE]
    ELSE [verdict |-> "benign", risk_score |-> risk_score, signature |-> FALSE]

\* variant: the except branch answers "scan_error" with the exception as a
\* second finding
FallbackReport_scan_error ==
    [ok |-> FALSE, verdict |-> "scan_error", risk_score |-> 0,
     model_scores |-> [lgbm |-> 0, tree |-> 0, dl |-> 0, rules |-> 0],
     findings |-> <<Finding("fallback", "info"), Finding("exception", "info")>>,
     clean_bytes |-> None, sanitized_bytes |-> None,
     sanitizer |-> "error",
     signals |-> [fallback |-> TRUE],
     report_findings |-> <<Finding("fallback", "info")>>,
     report_meta |-> [exception |-> "raised"]]

\* the except branch of scan_bytes
FallbackReport ==
    [ok |-> FALSE, verdict |-> "benign", risk_score |-> 0,
     model_scores |-> [lgbm |-> 0, tree |-> 0, dl |-> 0, rules |-> 0],
     findings |-> <<Finding("fallback", "info")>>,
     clean_bytes |-> None, sanitized_bytes |-> None,
     sanitizer |-> "error",
     signals |-> [fallback |-> TRUE],
     report_findings |-> <<Finding("fallback", "info")>>,
     report_meta |-> [exception |-> "raised"]]

\* variant: the larger of the two signals instead of their weighted sum
BlendRisk_max(signals) ==
    LET meta == SignalOr(signals, "P_META", 0)
    IN  IF "P_LGBM" \in DOMAIN signals
        THEN Max(meta, signals["P_LGBM"])
        ELSE meta

\* risk_score before the verdict: P_META, blended with P_LGBM when present
BlendRisk(signals) ==
    LET meta == SignalOr(signals, "P_META", 0)
    IN  IF "P_LGBM" \in DOMAIN signals
        THEN Min(ONE, (7 * meta + 3 * signals["P_LGBM"]) \div 10)
        ELSE meta

\* "sanitized": the sanitizer returned a buffer and it is not empty
\* (clean_bytes is not None and len(clean_bytes) > 0)
SanitizeResult(r) ==
    [clean_bytes |-> r.out, san_meta |-> r.meta, calls |-> r.calls,
     sanitized |-> ~IsNone(r.out) /\ ~IsEmptyBytes(r.out[1])]

\* variant: the sanitizer runs whatever the verdict
SanitizeStep_always(verdict, ext, d, env) ==
    SanitizeResult(_run_sanitizer(ext, d, env))

\* "CRITICAL: Only sanitize malicious files!": the sanitizer runs for a
\* malicious verdict only, and counts when it returned a non-empty buffer
SanitizeStep(verdict, ext, d, env) ==
    IF verdict = "malicious"
    THEN SanitizeResult(_run_sanitizer(ext, d, env))
    ELSE [clean_bytes |-> Some(d), san_meta |-> "benign_not_sanitized",
          calls |-> <<>>, sanitized |-> FALSE]

\* signals after the ML block (skipped, the adapter is None) and the
\* heuristics block, whose own except records heuristics_error
ScanSignals(d, ent, ext, env) ==
    IF build_features_for_lgbm = None /\ env.fault = "heuristics"
    THEN EmptyDict @@ [heuristics_error |-> "raised"]
    ELSE EmptyDict @@ _simple_heuristics(d, ent, ext)

\* findings: _extract_findings plus the debug finding of a failed block
ScanFindings(d, ext, signals) ==
    _extract_findings(d, ext)
    \o (IF "heuristics_error" \in DOMAIN signals
        THEN <<Finding("debug_heuristics_error", "info")>> ELSE <<>>)

\* the dict scan_bytes returns (rep) and the sanitizer calls made (calls);
\* the signature branch has overwritten P_RULES and P_META by then
ScanReport(signals, findings, v, san) ==
    LET final == IF v.signature
                 THEN [P_RULES |-> ONE, P_META |-> ONE] @@ signals ELSE signals
    IN  [rep |->
            [ok |-> TRUE, verdict |-> v.verdict, risk_score |-> v.risk_score,
             model_scores |-> [lgbm |-> SignalOr(final, "P_LGBM", 0),
                               tree |-> SignalOr(final, "P_TREE", 0),
                               dl |-> SignalOr(final, "P_DL", 0),
                               rules |-> SignalOr(final, "P_RULES", 0)],
             findings |-> findings,
             clean_bytes |-> IF san.sanitized THEN san.clean_bytes ELSE None,
             sanitized_bytes |-> IF san.sanitized THEN san.clean_bytes ELSE None,
             sanitizer |-> san.san_meta,
             signals |-> final,
             report_findings |-> findings,
             report_meta |-> [sanitized |-> san.sanitized]],
         calls |-> san.calls]

\* verdict ladder, then the sanitize gate, on the findings
ScanDecide(d, ext, env, signals, findings, v) ==
    ScanReport(signals, findings, v, SanitizeStep(v.verdict, ext, d, env))

\* the try block of scan_bytes from the findings on
ScanTry(d, ext, env, signals, findings) ==
    ScanDecide(d, ext, env, signals, findings,
               Verdict(findings, BlendRisk(signals)))

\* scan_bytes(data, filename): the returned dict (rep) and the sanitizer
\* functions it called on the way (calls); an exception outside the guarded
\* blocks lands in the outer except
scan_bytes(d, ent, name, env) ==
    IF env.fault = "fatal"
    THEN [rep |-> FallbackReport, calls |-> <<>>]
    ELSE ScanTry(d, _ext_from_name(name), env,
                 ScanSignals(d, ent, _ext_from_name(name), env),
                 ScanFindings(d, _ext_from_name(name),
                              ScanSignals(d, ent, _ext_from_name(name), env)))


\* ------------------------------------------------------------ shared_logic
\* sanitize_with_available_tools: bytes-style sanitizer, then the path-based
\* one, then passthrough.  Both styles come from the same module, so they are
\* importable together (env.libs); sanitize_rtf needs the standard library only.
SanitizeBytesStyle(ext, content, env) ==
    IF ext = ".pdf" /\ env.libs
    THEN [clean |-> Some(sanitize_pdf_bytes(content)),
          engine |-> "sanitize_pdf_bytes", notes |-> <<>>,
          calls |-> <<Call("sanitize_pdf_bytes", sanitize_pdf(content).status)>>
                    \o sanitize_pdf(content).calls]
    ELSE IF ext \in OOXML_EXTS /\ env.libs
    THEN [clean |-> Some(sanitize_ooxml_bytes(content)),
          engine |-> "sanitize_ooxml_bytes", notes |-> <<>>,
          calls |-> <<Call("sanitize_ooxml_bytes", sanitize_ooxml(content).status)>>]
    ELSE IF ext = ".rtf"
    THEN [clean |-> Some(sanitize_rtf_bytes(content)),
          engine |-> "sanitize_rtf_bytes", notes |-> <<>>,
          calls |-> <<Call("sanitize_rtf_bytes", "ok")>>]
    ELSE [clean |-> None, engine |-> "unset", notes |-> <<>>, calls |-> <<>>]

\* variant: the path-based sanitizer runs whatever the first stage returned
SanitizePathStyle_always(ext, content, env, stage1) ==
    IF ext = ".pdf" /\ env.libs
    THEN [clean |-> Some(sanitize_pdf(content).out),
          engine |-> "sanitize_pdf",
          notes |-> IF sanitize_pdf(content).stage = "byte_scrub"
                    THEN <<"Fallback used due to error">> ELSE <<>>,
          calls |-> stage1.calls
                    \o <<Call("sanitize_pdf", sanitize_pdf(content).status)>>
                    \o sanitize_pdf(content).calls]
    ELSE IF ext \in OOXML_EXTS /\ env.libs
    THEN [clean |-> Some(sanitize_ooxml(content).out),
          engine |-> "sanitize_ooxml",
          notes |-> IF sanitize_ooxml(content).status = "ok"
                    THEN <<"Removed external links, VBA, and embedded objects">>
                    ELSE <<>>,
          calls |-> stage1.calls
                    \o <<Call("sanitize_ooxml", sanitize_ooxml(content).status)>>]
    ELSE IF ext = ".rtf"
    THEN [clean |-> Some(sanitize_rtf_bytes(content)),
          engine |-> "sanitize_rtf",
          notes |-> <<"Removed RTF object blocks and embeds">>,
          calls |-> stage1.calls \o <<Call("sanitize_rtf", "ok")>>]
    ELSE stage1

\* "if clean_bytes is None": the path-based sanitizer on a temporary copy
SanitizePathStyle(ext, content, env, stage1) ==
    IF ~IsNone(stage1.clean) THEN stage1
    ELSE IF ext = ".pdf" /\ env.libs
    THEN [clean |-> Some(sanitize_pdf(content).out),
          engine |-> "sanitize_pdf",
          notes |-> IF sanitize_pdf(content).stage = "byte_scrub"
                    THEN <<"Fallback used due to error">> ELSE <<>>,
          calls |-> stage1.calls
                    \o <<Call("sanitize_pdf", sanitize_pdf(content).status)>>
                    \o sanitize_pdf(content).calls]
    ELSE IF ext \in OOXML_EXTS /\ env.libs
    THEN [clean |-> Some(sanitize_ooxml(content).out),
          engine |-> "sanitize_ooxml",
          notes |-> IF sanitize_ooxml(content).status = "ok"
                    THEN <<"Removed external links, VBA, and embedded objects">>
                    ELSE <<>>,
          calls |-> stage1.calls
                    \o <<Call("sanitize_ooxml", sanitize_ooxml(content).status)>>]
    ELSE IF ext = ".rtf"
    THEN [clean |-> Some(sanitize_rtf_bytes(content)),
          engine |-> "sanitize_rtf",
          notes |-> <<"Removed RTF object blocks and embeds">>,
          calls |-> stage1.calls \o <<Call("sanitize_rtf", "ok")>>]
    ELSE stage1

\* "if clean_bytes is None": passthrough; then the meta with "changed"
SanitizeOutcome(content, stage2) ==
    LET last == IF IsNone(stage2.clean)
                THEN [clean |-> Some(content), engine |-> "passthrough",
                      notes |-> Append(stage2.notes,
                          "Unsupported type or sanitizer failed; original retained"),
                      calls |-> stage2.calls]
                ELSE stage2
    IN  [clean_bytes |-> last.clean[1],
         sanitizer |-> [engine |-> last.engine, notes |-> last.notes,
                        changed |-> (last.clean[1] # content)],
         calls |-> last.calls]

sanitize_with_available_tools(ext, content, env) ==
    SanitizeOutcome(content,
        SanitizePathStyle(ext, content, env, SanitizeBytesStyle(ext, content, env)))

\* step "Sanitize" of both endpoints: the scanner's clean bytes when it
\* returned some, else sanitize_with_available_tools on the upload
EndpointSanitize(raw_result, ext, raw, env) ==
    IF ~IsNone(raw_result.clean_bytes)
    THEN [clean_bytes |-> raw_result.clean_bytes[1],
          sanitizer |-> [engine |-> "scanner_clean_bytes", notes |-> <<>>,
                         changed |-> (raw_result.clean_bytes[1] # raw)],
          calls |-> <<>>]
    ELSE sanitize_with_available_tools(ext, raw, env)

\* _byte_entropy of the sanitized bytes: zero for no bytes, else taken to
\* stay at the level of the upload
EntropyAfter(clean, ent) == IF IsEmptyBytes(clean) THEN 0 ELSE ent

Tag(by, calls) ==
    [i \in DOMAIN calls |-> [by |-> by, fn |-> calls[i].fn, status |-> calls[i].status]]

\* the JSON answer of the endpoint, with the report of the first scan and
\* the sanitizer calls of the three steps
EndpointResponse(first, san_out, second, sanitized_flag) ==
    [raw_result |-> first.rep,
     response |->
        [status |-> 200,
         verdict |-> first.rep.verdict,
         risk_score |-> first.rep.risk_score,
         sanitizer |-> san_out.sanitizer,
         sanitized |-> IF sanitized_flag = "changed"
                       THEN san_out.sanitizer.changed ELSE TRUE,
         clean_bytes |-> san_out.clean_bytes,
         clean_verdict |-> second.rep.verdict,
         clean_risk_score |-> second.rep.risk_score,
         delta_risk |-> second.rep.risk_score - first.rep.risk_score],
     calls |-> Tag("scan_bytes", first.calls)
               \o Tag("sanitize_with_available_tools", san_out.calls)
               \o Tag("rescan", second.calls)]

\* step "Re-scan": scan_bytes on the clean bytes under the clean file's name
EndpointRescan(art, env, cleanStem, sanitized_flag, first, san_out) ==
    EndpointResponse(first, san_out,
        scan_bytes(san_out.clean_bytes,
                   EntropyAfter(san_out.clean_bytes, art.ent),
                   [stem |-> cleanStem, suffix |-> art.name.suffix], env),
        sanitized_flag)

\* step "Sanitize" on the report of the first scan
EndpointSanitized(art, env, cleanStem, sanitized_flag, first) ==
    EndpointRescan(art, env, cleanStem, sanitized_flag, first,
        EndpointSanitize(first.rep, get_extension(art.name), art.data, env))

\* POST /scan and POST /api/scan after the upload is read: scan, sanitize,
\* re-scan
EndpointRun(art, env, cleanStem, sanitized_flag) ==
    EndpointSanitized(art, env, cleanStem, sanitized_flag,
        scan_bytes(art.data, art.ent, art.name, env))


\* --------------------------------------------------- scripts/scan_file.py
\* probabilities the loaded models may return
ProbLevels == {0, 500000, ONE}

\* what is found in --models_dir: the classifier (lgbm), the tree models and
\* the text head, each with the probability it would return
CliModels ==
    { m \in [lgbm : BOOLEAN, p_lgbm : ProbLevels,
             trees : BOOLEAN, p_tree : ProbLevels, p_dl : ProbLevels] :
        /\ (~m.lgbm => m.p_lgbm = 0)
        /\ (~m.trees => m.p_tree = 0) }

Flag(meta, k) == IF k \in DOMAIN meta THEN meta[k] ELSE FALSE

\* report_utils.rules_prob
rules_prob(feats, meta) ==
    Max(0, Min(ONE,
        (IF Flag(meta, "pdf_has_javascript") THEN 500000 ELSE 0)
        + (IF Flag(meta, "has_vba_project") THEN 400000 ELSE 0)
        + (IF Flag(meta, "embedded_files_count") THEN 200000 ELSE 0)
        + (IF Flag(feats, "pdf_openaction") THEN 100000 ELSE 0)
        + (IF Flag(feats, "ooxml_has_external_rel") THEN 100000 ELSE 0)))

\* report_utils.blend, weights 0.35 / 0.35 / 0.20 / 0.10
blend(p_dl, p_lgbm, p_tree, p_rules) ==
    (35 * p_dl + 35 * p_lgbm + 20 * p_tree + 10 * p_rules) \div 100

\* main(): build_features_for_lgbm(str(src)) is called with one argument and
\* raises, so feats and meta are both {}; an absent model scores
\* 0.0 (lgbm) and 0.5 (trees); the file is sanitized whatever the verdict
cli_main(name, m) ==
    LET feats == EmptyDict
        meta == EmptyDict
        p_lgbm == IF m.lgbm THEN m.p_lgbm ELSE 0
        p_tree == IF m.trees THEN m.p_tree ELSE 500000
        p_rules == rules_prob(feats, meta)
        p_dl == m.p_dl
        risk == blend(p_dl, p_lgbm, p_tree, p_rules)
        ext == name.suffix
    IN  [status |-> 0,
         verdict |-> IF risk >= 500000 THEN "malicious" ELSE "benign",
         risk_score |-> risk,
         model_scores |-> [p_dl |-> p_dl, p_lgbm |-> p_lgbm,
                           p_tree |-> p_tree, p_rules |-> p_rules],
         sanitization_success |-> TRUE,
         calls |-> IF ext = ".pdf" THEN <<Call("sanitize_pdf", "unknown")>>
                   ELSE IF ext \in OOXML_EXTS THEN <<Call("sanitize_ooxml", "unknown")>>
                   ELSE IF ext = ".rtf" THEN <<Call("sanitize_rtf", "unknown")>>
                   ELSE <<>>]

\* ------------------------------------------------------------ state machine
NoReq == [op |-> "none"]
NoReport == [ok |-> FALSE]
NoResp == [status |-> 0]

\* MongoDB after init_mongo: the three GridFS buckets, the scans and the
\* users collection, all empty
EmptyStore ==
    [uploads |-> <<>>, clean |-> <<>>, reports |-> <<>>, scans |-> <<>>, users |-> <<>>]

\* the auth requests that can be in progress at a time
Procs == {"p1", "p2"}

IdleProc == [pc |-> "idle"]

Init ==
    /\ pc = "idle"
    /\ req = NoReq
    /\ report = NoReport
    /\ resp = NoResp
    /\ sanLog = <<>>
    /\ store = EmptyStore
    /\ trace = <<>>
    /\ procs = [p \in Procs |-> IdleProc]

\* a direct call of scan_bytes
ScanBytesCall ==
    /\ pc = "idle"
    /\ \E art \in Artifacts, env \in Envs :
        \E r \in {scan_bytes(art.data, art.ent, art.name, env)} :
            /\ req' = [op |-> "scan_bytes", art |-> art, env |-> env]
            /\ report' = r.rep
            /\ sanLog' = Tag("scan_bytes", r.calls)
    /\ resp' = NoResp
    /\ pc' = "done"
    /\ UNCHANGED serverVars

\* POST /scan (api_stateless.scan_file)
StatelessScan ==
    /\ pc = "idle"
    /\ \E art \in Artifacts, env \in Envs :
        \E r \in {EndpointRun(art, env, "clean_", "changed")} :
            /\ req' = [op |-> "scan", art |-> art, env |-> env]
            /\ report' = r.raw_result
            /\ resp' = r.response
            /\ sanLog' = r.calls
    /\ pc' = "done"
    /\ UNCHANGED serverVars

\* POST /api/scan (api_server.scan_endpoint): an empty upload is refused
ApiScan ==
    /\ pc = "idle"
    /\ \E art \in Artifacts, env \in Envs :
        /\ req' = [op |-> "api_scan", art |-> art, env |-> env]
        /\ IF IsEmptyBytes(art.data)
           THEN /\ report' = NoReport
                /\ resp' = [status |-> 400]
                /\ sanLog' = <<>>
           ELSE \E r \in {EndpointRun(art, env, "sha_clean", "always")} :
                    /\ report' = r.raw_result
                    /\ resp' = r.response
                    /\ sanLog' = r.calls
    /\ pc' = "done"
    /\ UNCHANGED serverVars

\* scripts/scan_file.py main
CliMain ==
    /\ pc = "idle"
    /\ \E name \in Filenames, m \in CliModels :
        \E r \in {cli_main(name, m)} :
            /\ req' = [op |-> "cli", name |-> name, models |-> m]
            /\ resp' = [x \in DOMAIN r \ {"calls"} |-> r[x]]
            /\ sanLog' = Tag("main", r.calls)
    /\ report' = NoReport
    /\ pc' = "done"
    /\ UNCHANGED serverVars

\* the caller takes the result; the next request starts from scratch
Return ==
    /\ pc = "done"
    /\ pc' = "idle"
    /\ req' = NoReq
    /\ report' = NoReport
    /\ resp' = NoResp
    /\ sanLog' = <<>>
    /\ trace' = <<>>
    /\ UNCHANGED <<store, procs>>

Next == ScanBytesCall \/ StatelessScan \/ ApiScan \/ CliMain \/ Return

Spec == Init /\ [][Next]_vars

\* ------------------------------------------------------------------ shapes
Done(op) == pc = "done" /\ req.op = op

\* a request that went through scan_bytes and has its report in `report`
Scanned ==
    /\ pc = "done"
    /\ req.op \in {"scan_bytes", "scan", "api_scan"}
    /\ "verdict" \in DOMAIN report

TypeOK ==
    /\ pc \in {"idle", "done"}
    /\ Scanned => report.verdict \in {"benign", "malicious"}


\* ------------------------------------------------------------------ claims
\* the top severity the scanner assigns is "high" (signature-level findings)
HasCritical(findings) == \E i \in DOMAIN findings : findings[i].severity = "high"

HasMedium(findings) == \E i \in DOMAIN findings : findings[i].severity = "medium"

\* report.meta.get("sanitized") is true
ReportedSanitized(rep) ==
    "sanitized" \in DOMAIN rep.report_meta /\ rep.report_meta.sanitized

LogFns == {sanLog[i].fn : i \in DOMAIN sanLog}

\* C1: whenever the findings of a scan hold a top-severity finding, the
\* reported risk score is exactly 1.0 and the verdict is malicious, whatever
\* the heuristic scores are
C1_CriticalForcesMalicious ==
    (Scanned /\ HasCritical(report.findings))
        => (report.risk_score = ONE /\ report.verdict = "malicious")

\* a top-severity finding on a file whose heuristic scores are all low
C1_Witness ==
    /\ Scanned
    /\ HasCritical(report.findings)
    /\ report.model_scores.lgbm < 500000
    /\ report.risk_score = ONE

\* C2: scan_bytes calls _run_sanitizer exactly when the verdict it derived is
\* malicious; for any other verdict nothing is called, the report says
\* sanitized = false and carries no sanitized bytes
C2_SanitizerIffMalicious ==
    Done("scan_bytes") =>
        /\ ("_run_sanitizer" \in LogFns) <=> (report.verdict = "malicious")
        /\ (report.verdict # "malicious") =>
              /\ sanLog = <<>>
              /\ ~ReportedSanitized(report)
              /\ IsNone(report.clean_bytes)
              /\ IsNone(report.sanitized_bytes)

\* a malicious verdict after which a format sanitizer really ran
C2_Witness ==
    /\ Done("scan_bytes")
    /\ report.verdict = "malicious"
    /\ "sanitize_rtf_bytes" \in LogFns

\* C3 (as claimed): for a benign verdict no sanitizer is called anywhere
\* between upload and response of /scan and /api/scan, and the clean bytes
\* of the response are the uploaded bytes
C3_BenignUntouched ==
    ((Done("scan") \/ Done("api_scan")) /\ resp.status = 200
        /\ report.verdict = "benign")
        => (sanLog = <<>> /\ resp.clean_bytes = req.art.data)

\* C4: scan_bytes always returns a report; when a step outside the guarded
\* ones raises, the report is benign, has exactly one finding, is not marked
\* sanitized and carries no bytes, and no sanitizer ran
C4_FallbackReport ==
    Done("scan_bytes") =>
        /\ {"ok", "verdict", "risk_score", "findings", "clean_bytes"} \subseteq DOMAIN report
        /\ (req.env.fault = "fatal") =>
              /\ report.verdict = "benign"
              /\ Len(report.findings) = 1
              /\ report.findings[1].severity = "info"
              /\ ~ReportedSanitized(report)
              /\ IsNone(report.clean_bytes)
              /\ IsNone(report.sanitized_bytes)
              /\ sanLog = <<>>

\* the fallback report for a file that would otherwise be malicious
C4_Witness ==
    /\ Done("scan_bytes")
    /\ req.env.fault = "fatal"
    /\ "js" \in Range(req.art.data.body)
    /\ ~report.ok

\* C5: every verdict is one of benign, suspicious, malicious and every risk
\* score lies in [0, 1], for the first scan and for the re-scan alike
C5_VerdictAndScoreRange ==
    /\ Scanned =>
          /\ report.verdict \in {"benign", "suspicious", "malicious"}
          /\ 0 <= report.risk_score /\ report.risk_score <= ONE
    /\ ((Done("scan") \/ Done("api_scan")) /\ resp.status = 200) =>
          /\ resp.clean_verdict \in {"benign", "suspicious", "malicious"}
          /\ 0 <= resp.clean_risk_score /\ resp.clean_risk_score <= ONE

\* the heuristics at their ceiling: malicious through the score, not a signature
C5_Witness ==
    /\ Scanned
    /\ ~HasCritical(report.findings)
    /\ report.verdict = "malicious"
    /\ report.risk_score = ONE


\* the ladder of the specification on a rule score, with the classifier
\* consulted only when it is available
LadderVerdict(rules, available, p) ==
    IF rules >= 600000 THEN "malicious"
    ELSE IF rules >= 300000 THEN "suspicious"
    ELSE IF available /\ p >= 750000 THEN "malicious"
    ELSE IF available /\ p >= 500000 THEN "suspicious"
    ELSE "benign"

C7_MaxOfRuleAndClassifier ==
    (Scanned /\ report.ok /\ ~HasCritical(report.findings))
        => report.risk_score =
              Max(report.model_scores.rules,
                  IF IsNone(build_features_for_lgbm) THEN 0
                  ELSE report.model_scores.lgbm)

\* C7 (amended): without a top-severity finding the risk score of scan_bytes
\* is 0.7 * P_META + 0.3 * P_LGBM of the reported signals (P_META alone, or
\* 0.0, when the signals lack them); the command-line scanner reports
\* 0.35 p_dl + 0.35 p_lgbm + 0.20 p_tree + 0.10 p_rules
C7_WeightedBlend ==
    /\ (Scanned /\ report.ok /\ ~HasCritical(report.findings)) =>
          IF "P_LGBM" \in DOMAIN report.signals
          THEN 10 * report.risk_score
                  = 7 * report.signals["P_META"] + 3 * report.signals["P_LGBM"]
          ELSE report.risk_score = SignalOr(report.signals, "P_META", 0)
    /\ Done("cli") =>
          100 * resp.risk_score
              = 35 * resp.model_scores.p_dl + 35 * resp.model_scores.p_lgbm
                + 20 * resp.model_scores.p_tree + 10 * resp.model_scores.p_rules

\* a blended score strictly between its two signals and below the rule score
C7_Witness ==
    /\ Scanned
    /\ report.ok
    /\ ~HasCritical(report.findings)
    /\ "P_LGBM" \in DOMAIN report.signals
    /\ report.signals["P_LGBM"] < report.risk_score
    /\ report.risk_score < report.signals["P_META"]
    /\ report.risk_score < report.model_scores.rules

\* C8 (as claimed): an unavailable classifier is left out of the aggregate
\* instead of entering it with probability 0.0
C8_UnavailableNotZero ==
    (Done("cli") /\ ~req.models.lgbm) => resp.model_scores.p_lgbm # 0

\* C9 (as claimed): for a non-empty upload the clean bytes an endpoint
\* returns, as produced by the sanitizers, are non-empty
C9_CleanBytesNonEmpty ==
    ((Done("scan") \/ Done("api_scan")) /\ resp.status = 200
        /\ ~IsEmptyBytes(req.art.data))
        => ~IsEmptyBytes(resp.clean_bytes)

\* C10 (as claimed): scan_bytes reports sanitized only with non-empty bytes,
\* and when the sanitizer it called ended as failed the report is not marked
\* sanitized
C10_FailedIsNotSuccess ==
    Done("scan_bytes") =>
        /\ ReportedSanitized(report) =>
              (~IsNone(report.clean_bytes) /\ ~IsEmptyBytes(report.clean_bytes[1]))
        /\ (\E i \in DOMAIN sanLog : sanLog[i].status = "failed")
              => ~ReportedSanitized(report)

\* C16 (as claimed): every OOXML upload whose zip container has a
\* vbaProject.bin member gets the macro finding and the verdict malicious,
\* wherever the member lies in the container
C16_VbaMemberAlwaysFlagged ==
    (Scanned /\ report.ok
        /\ _ext_from_name(req.art.name) \in OOXML_EXTS
        /\ req.art.data.wf
        /\ "vba" \in Range(req.art.data.body))
        => /\ \E i \in DOMAIN report.findings :
                 report.findings[i].id = "ooxml_vba_macro"
           /\ report.verdict = "malicious"

\* C15 (as claimed): when a file that is malicious through a top-severity
\* finding has been sanitized successfully, the re-scan of the clean bytes
\* scores strictly lower than the first scan (delta_risk < 0)
C15_DisarmReducesRisk ==
    ((Done("scan") \/ Done("api_scan")) /\ resp.status = 200
        /\ report.ok
        /\ HasCritical(report.findings)
        /\ ReportedSanitized(report))
        => resp.delta_risk < 0

\* C14 (as claimed): when the passthrough stage answers, the clean bytes are
\* the upload, the response says sanitized = false and the sanitizer record
\* carries a reason
C14_PassthroughNotSuccess ==
    ((Done("scan") \/ Done("api_scan")) /\ resp.status = 200
        /\ resp.sanitizer.engine = "passthrough")
        => /\ resp.clean_bytes = req.art.data
           /\ resp.sanitized = FALSE
           /\ resp.sanitizer.notes # <<>>

\* the sanitizer functions of each stage of sanitize_with_available_tools
BytesStyleFns == {"sanitize_pdf_bytes", "sanitize_ooxml_bytes", "sanitize_rtf_bytes"}
PathStyleFns == {"sanitize_pdf", "sanitize_ooxml", "sanitize_rtf"}

\* the calls sanitize_with_available_tools made for the current request
SwatCalls ==
    SelectSeq(sanLog, LAMBDA c : c.by = "sanitize_with_available_tools")

C11_SuccessChangesBytes ==
    (Done("scan_bytes") /\ ReportedSanitized(report))
        => report.clean_bytes[1] # req.art.data

\* ---------------------------------------------- sanitize_rtf.py, on text
\* longest RTF text, in pieces
MaxPieces == 4

\* text is a sequence of characters; the pieces texts are assembled from:
\* control words the two patterns look for (one of them in upper case), the
\* two halves of \object, a letter and a blank
RtfPieces ==
    { <<"\\", "o", "b", "j", "e", "c", "t">>,
      <<"\\", "e", "n", "d", "o", "b", "j">>,
      <<"\\", "p", "i", "c", "t">>,
      <<"\\", "O", "B", "J", "D", "A", "T", "A">>,
      <<"\\", "o", "b">>,
      <<"j", "e", "c", "t">>,
      <<"x">>,
      <<" ">> }

RECURSIVE Flatten(_)
Flatten(pieces) ==
    IF pieces = <<>> THEN <<>> ELSE Head(pieces) \o Flatten(Tail(pieces))

RtfTexts == {Flatten(ps) : ps \in SeqsUpTo(RtfPieces, MaxPieces)}

\* str.lower() on the characters in use
LowerChar(c) ==
    CASE c = "A" -> "a" [] c = "B" -> "b" [] c = "C" -> "c" [] c = "D" -> "d" [] c = "E" -> "e" [] c = "F" -> "f" [] c = "G" -> "g"
      [] c = "H" -> "h" [] c = "I" -> "i" [] c = "J" -> "j" [] c = "K" -> "k" [] c = "L" -> "l" [] c = "M" -> "m" [] c = "N" -> "n"
      [] c = "O" -> "o" [] c = "P" -> "p" [] c = "Q" -> "q" [] c = "R" -> "r" [] c = "S" -> "s" [] c = "T" -> "t" [] c = "U" -> "u"
      [] c = "V" -> "v" [] c = "W" -> "w" [] c = "X" -> "x" [] c = "Y" -> "y" [] c = "Z" -> "z" 
      [] OTHER -> c

\* \w: letters, digits and the underscore
IsWordChar(c) == c \notin {"\\", " ", "/", "{", "}"}

\* the literal kw (lower case) matches txt at position i under re.IGNORECASE
LiteralAt(txt, i, kw) ==
    /\ i + Len(kw) - 1 <= Len(txt)
    /\ \A k \in 1..Len(kw) : LowerChar(txt[i + k - 1]) = kw[k]

\* \\kw\b at position i: the control word and a word boundary after it
ControlWordAt(txt, i, kw) ==
    /\ LiteralAt(txt, i, <<"\\">> \o kw)
    /\ (i + Len(kw) = Len(txt) \/ ~IsWordChar(txt[i + Len(kw) + 1]))

ObjectWord == <<"o", "b", "j", "e", "c", "t">>
EndobjWord == <<"e", "n", "d", "o", "b", "j">>

\* (objdata|objclass|field|pict)
RtfControlWords ==
    { <<"o", "b", "j", "d", "a", "t", "a">>,
      <<"o", "b", "j", "c", "l", "a", "s", "s">>,
      <<"f", "i", "e", "l", "d">>,
      <<"p", "i", "c", "t">> }

\* where a match of \\object\b.*?\\endobj\b that starts at i ends: the end
\* of the first \endobj at or after the end of \object; 0 when there is none
ObjectSpanEnd(txt, i) ==
    IF ControlWordAt(txt, i, ObjectWord)
       /\ \E j \in (i + 7)..Len(txt) : ControlWordAt(txt, j, EndobjWord)
    THEN 6 + CHOOSE j \in (i + 7)..Len(txt) :
                /\ ControlWordAt(txt, j, EndobjWord)
                /\ \A m \in (i + 7)..(j - 1) : ~ControlWordAt(txt, m, EndobjWord)
    ELSE 0

\* re.sub(r"\\object\b.*?\\endobj\b", "", txt, flags=IGNORECASE|DOTALL),
\* from position i on
RECURSIVE SubObjectSpans(_, _)
SubObjectSpans(txt, i) ==
    IF i > Len(txt) THEN <<>>
    ELSE IF ObjectSpanEnd(txt, i) > 0
    THEN SubObjectSpans(txt, ObjectSpanEnd(txt, i) + 1)
    ELSE <<txt[i]>> \o SubObjectSpans(txt, i + 1)

\* variant: the control words are matched in lower case only
ControlWordEnd_cased(txt, i) ==
    IF \E kw \in RtfControlWords :
          /\ ControlWordAt(txt, i, kw)
          /\ \A k \in 1..Len(kw) : txt[i + k] = kw[k]
    THEN i + Len(CHOOSE kw \in RtfControlWords : ControlWordAt(txt, i, kw))
    ELSE 0

\* where a match of \\(objdata|objclass|field|pict)\b that starts at i
\* ends; 0 when there is none
ControlWordEnd(txt, i) ==
    IF \E kw \in RtfControlWords : ControlWordAt(txt, i, kw)
    THEN i + Len(CHOOSE kw \in RtfControlWords : ControlWordAt(txt, i, kw))
    ELSE 0

\* re.sub(r"\\(objdata|objclass|field|pict)\b", "", txt, flags=IGNORECASE),
\* from position i on
RECURSIVE SubControlWords(_, _)
SubControlWords(txt, i) ==
    IF i > Len(txt) THEN <<>>
    ELSE IF ControlWordEnd(txt, i) > 0
    THEN SubControlWords(txt, ControlWordEnd(txt, i) + 1)
    ELSE <<txt[i]>> \o SubControlWords(txt, i + 1)

\* sanitize_rtf_bytes on the text of the file: latin-1 decodes and encodes
\* every byte, so the text is the bytes
sanitize_rtf_text(txt) == SubControlWords(SubObjectSpans(txt, 1), 1)

\* ------------------------------------- sanitize_pdf.py, the keyword scrub
\* longest buffer handed to the scrub, in characters
MaxData == 4

\* tokens per compiled pattern
BATCH == 100

ScrubAlphabet == {"/", "J", "s", "a", "x"}

ScrubBuffers == SeqsUpTo(ScrubAlphabet, MaxData)

\* token lists: none, one keyword, keywords with a common part in both
\* orders (EXPANDED_TERMS is sorted longest first), and an empty token
ScrubTokenLists ==
    { <<>>,
      << <<"j", "s">> >>,
      << <<"/", "j", "s">>, <<"j", "s">> >>,
      << <<"j", "s">>, <<"/", "j", "s">> >>,
      << <<"A", "A">>, <<"a">> >>,
      << <<>>, <<"a">>, <<"s", "a", "x">> >> }

\* re.escape(t) under re.IGNORECASE matches text at position i
TokenAt(text, i, t) ==
    /\ t # <<>>
    /\ i + Len(t) - 1 <= Len(text)
    /\ \A k \in 1..Len(t) : LowerChar(text[i + k - 1]) = LowerChar(t[k])

\* variant: the second character is dropped instead of replaced
_neutralize_keyword_drop(val) ==
    IF Len(val) > 2
    THEN <<val[1]>> \o SubSeq(val, 3, Len(val))
    ELSE [k \in 1..Len(val) |-> "_"]

\* _neutralize_keyword: val[0] + "_" + val[2:], or all underscores
_neutralize_keyword(val) ==
    IF Len(val) > 2
    THEN <<val[1], "_">> \o SubSeq(val, 3, Len(val))
    ELSE [k \in 1..Len(val) |-> "_"]

\* the alternative of "|".join(chunk) that matches at i: the first in the
\* list, empty tokens skipped; 0 when none matches
FirstTokenAt(text, i, chunk) ==
    IF \E k \in DOMAIN chunk : TokenAt(text, i, chunk[k])
    THEN CHOOSE k \in DOMAIN chunk :
            /\ TokenAt(text, i, chunk[k])
            /\ \A m \in 1..(k - 1) : ~TokenAt(text, i, chunk[m])
    ELSE 0

\* rx.sub(_neutralize_keyword, text) from position i on
RECURSIVE SubKeywords(_, _, _)
SubKeywords(text, i, chunk) ==
    IF i > Len(text) THEN <<>>
    ELSE IF FirstTokenAt(text, i, chunk) > 0
    THEN _neutralize_keyword(
             SubSeq(text, i, i + Len(chunk[FirstTokenAt(text, i, chunk)]) - 1))
         \o SubKeywords(text, i + Len(chunk[FirstTokenAt(text, i, chunk)]), chunk)
    ELSE <<text[i]>> \o SubKeywords(text, i + 1, chunk)

\* _scrub_bytes_safely(data, tokens) on the characters of data: one
\* substitution pass per batch of BATCH tokens
RECURSIVE ScrubBytes(_, _)
ScrubBytes(data, tokens) ==
    IF tokens = <<>> THEN data
    ELSE ScrubBytes(SubKeywords(data, 1, SubSeq(tokens, 1, Min(BATCH, Len(tokens)))),
                    SubSeq(tokens, BATCH + 1, Len(tokens)))

\* ------------------------------------------ sanitize_ooxml, zip members
\* longest member list of an archive
MaxMembers == 2

\* str.lower() of a member name
Lower(s) == [k \in DOMAIN s |-> LowerChar(s[k])]

\* s.endswith(suf)
EndsWith(s, suf) ==
    /\ Len(suf) <= Len(s)
    /\ SubSeq(s, Len(s) - Len(suf) + 1, Len(s)) = suf

\* sub in s
Contains(s, sub) ==
    \E p \in 1..(Len(s) - Len(sub) + 1) : SubSeq(s, p, p + Len(sub) - 1) = sub

PartNames ==
    { <<"w", "o", "r", "d", "/", "d", "o", "c", ".", "x", "m", "l">>,
      <<"w", "o", "r", "d", "/", "v", "b", "a", "P", "r", "o", "j", "e", "c", "t", ".", "b", "i", "n">>,
      <<"w", "o", "r", "d", "/", "V", "B", "A", "P", "R", "O", "J", "E", "C", "T", ".", "B", "I", "N">>,
      <<"w", "o", "r", "d", "/", "e", "m", "b", "e", "d", "d", "i", "n", "g", "s", "/", "o", "l", "e", ".", "b", "i", "n">>,
      <<"w", "o", "r", "d", "/", "E", "M", "B", "E", "D", "D", "I", "N", "G", "S", "/", "o", "l", "e", ".", "b", "i", "n">>,
      <<"d", "o", "c", "P", "r", "o", "p", "s", "/", "a", "p", "p", ".", "x", "m", "l">> }

RelsNames ==
    { <<"w", "o", "r", "d", "/", "_", "r", "e", "l", "s", "/", "d", "o", "c", ".", "r", "e", "l", "s">>,
      <<"w", "o", "r", "d", "/", "_", "r", "e", "l", "s", "/", "d", "o", "c", ".", "R", "E", "L", "S">> }

\* Relationship elements: an external target, an internal one, and a link
\* to an externalLink part
Relationships ==
    { [mode |-> "External", target |-> "http"],
      [mode |-> "none", target |-> "media"],
      [mode |-> "none", target |-> "externalLink"] }

RelsContents ==
    {<<>>} \cup {<<r>> : r \in Relationships}
           \cup {<<[mode |-> "none", target |-> "media"],
                   [mode |-> "External", target |-> "http"]>>}

\* a zip entry: its name, its bytes (data; for a part that parses as XML
\* with Relationship children, xml is "ok" and rels lists them)
Members ==
    {[name |-> n, data |-> "d1", xml |-> "none", rels |-> <<>>] : n \in PartNames}
    \cup {[name |-> <<"w", "o", "r", "d", "/", "d", "o", "c", ".", "x", "m", "l">>,
            data |-> "d2", xml |-> "none", rels |-> <<>>]}
    \cup {[name |-> n, data |-> "d1", xml |-> "ok", rels |-> rs] :
              n \in RelsNames, rs \in RelsContents}
    \cup {[name |-> n, data |-> "d1", xml |-> "bad", rels |-> <<>>] : n \in RelsNames}

Archives == SeqsUpTo(Members, MaxMembers)

VbaNames == { <<"v", "b", "a", "P", "r", "o", "j", "e", "c", "t", ".", "b", "i", "n">>,
              <<"v", "b", "a", "P", "r", "o", "j", "e", "c", "t", "S", "i", "g", "n", "a", "t", "u", "r", "e", ".", "b", "i", "n">> }

\* sanitizers/sanitize_ooxml.py: an entry that is not copied to the output
DropsMember(name) ==
    \/ \E suf \in VbaNames : EndsWith(name, suf)
    \/ Contains(Lower(name), <<"/", "e", "m", "b", "e", "d", "d", "i", "n", "g", "s", "/">>)

\* the children of the root that stay
RECURSIVE KeepInternal(_)
KeepInternal(rels) ==
    IF rels = <<>> THEN <<>>
    ELSE IF Head(rels).mode = "External" \/ Head(rels).target = "externalLink"
    THEN KeepInternal(Tail(rels))
    ELSE <<Head(rels)>> \o KeepInternal(Tail(rels))

\* the data written for a kept entry
CleanMember(m) ==
    IF EndsWith(m.name, <<".", "r", "e", "l", "s">>) /\ m.xml = "ok"
    THEN [m EXCEPT !.rels = KeepInternal(m.rels)]
    ELSE m

\* zin.read(item.filename) for the k-th entry of infolist(): the archive
\* looks the name up, and the last entry of that name is the one it finds
ReadByName(ms, k) ==
    ms[CHOOSE j \in DOMAIN ms :
          /\ ms[j].name = ms[k].name
          /\ \A m \in DOMAIN ms : ms[m].name = ms[k].name => m <= j]

\* the loop over zin.infolist() from entry k on
RECURSIVE CopyFrom(_, _)
CopyFrom(ms, k) ==
    IF k > Len(ms) THEN <<>>
    ELSE IF DropsMember(ms[k].name) THEN CopyFrom(ms, k + 1)
    ELSE <<CleanMember(ReadByName(ms, k))>> \o CopyFrom(ms, k + 1)

CopyMembers(ms) == CopyFrom(ms, 1)

\* sanitize_ooxml(in_path, out_path) of sanitizers/: status and the output
\* file; a file that is no zip archive is copied
sanitize_ooxml_file(suffix, file) ==
    IF suffix \notin {".docx", ".pptx", ".xlsx"}
    THEN [status |-> "noop", out |-> file]
    ELSE IF ~file.zip
    THEN [status |-> "failed", out |-> file]
    ELSE [status |-> "ok", out |-> [file EXCEPT !.members = CopyMembers(file.members)]]

\* scripts/sanitize_ooxml.py
DROP_FOLDERS ==
    { <<"/", "e", "m", "b", "e", "d", "d", "i", "n", "g", "s", "/">>,
      <<"/", "e", "x", "t", "e", "r", "n", "a", "l", "l", "i", "n", "k", "s", "/">>,
      <<"/", "w", "e", "b", "e", "x", "t", "e", "n", "s", "i", "o", "n", "s", "/">>,
      <<"/", "a", "c", "t", "i", "v", "e", "x", "/">>,
      <<"/", "a", "c", "t", "i", "v", "e", "X", "/">>,
      <<"/", "c", "u", "s", "t", "o", "m", "x", "m", "l", "/">> }

DROP_DOC_PROPS ==
    { <<"d", "o", "c", "p", "r", "o", "p", "s", "/", "c", "o", "r", "e", ".", "x", "m", "l">>,
      <<"d", "o", "c", "p", "r", "o", "p", "s", "/", "a", "p", "p", ".", "x", "m", "l">>,
      <<"d", "o", "c", "p", "r", "o", "p", "s", "/", "c", "u", "s", "t", "o", "m", ".", "x", "m", "l">> }

\* should_drop(name)
should_drop(name) ==
    \/ EndsWith(Lower(name), <<"v", "b", "a", "p", "r", "o", "j", "e", "c", "t", ".", "b", "i", "n">>)
    \/ \E f \in DROP_FOLDERS : Contains(Lower(name), f)
    \/ \E d \in DROP_DOC_PROPS : EndsWith(Lower(name), d)
    \/ Contains(Lower(name), <<"/", "c", "o", "m", "m", "e", "n", "t", "s">>)
    \/ Contains(Lower(name), <<"t", "r", "a", "c", "k", "c", "h", "a", "n", "g", "e", "s">>)

\* _is_external_rel(rel_el) on the attributes in use
_is_external_rel(rel) == rel.mode = "External" \/ rel.target = "externalLink"

RECURSIVE KeepNotExternal(_)
KeepNotExternal(rels) ==
    IF rels = <<>> THEN <<>>
    ELSE IF _is_external_rel(Head(rels)) THEN KeepNotExternal(Tail(rels))
    ELSE <<Head(rels)>> \o KeepNotExternal(Tail(rels))

\* the data written for a kept entry
ScriptCleanMember(m) ==
    IF EndsWith(Lower(m.name), <<".", "r", "e", "l", "s">>) /\ m.xml = "ok"
    THEN [m EXCEPT !.rels = KeepNotExternal(m.rels)]
    ELSE m

\* the loop over zin.infolist() from entry k on
RECURSIVE ScriptCopyFrom(_, _)
ScriptCopyFrom(ms, k) ==
    IF k > Len(ms) THEN <<>>
    ELSE IF should_drop(ms[k].name) THEN ScriptCopyFrom(ms, k + 1)
    ELSE <<ScriptCleanMember(ReadByName(ms, k))>> \o ScriptCopyFrom(ms, k + 1)

ScriptCopyMembers(ms) == ScriptCopyFrom(ms, 1)

MarkerMember == [name |-> <<"s", "a", "f", "e", "d", "o", "c", "s", ".", "t", "x", "t">>, data |-> "sanitized",
                 xml |-> "none", rels |-> <<>>]

\* sanitize_ooxml(in_path, out_path) of scripts/: the marker entry is added
\* when the rewritten archive equals the input
script_sanitize_ooxml(suffix, file) ==
    IF suffix \notin {".docx", ".pptx", ".xlsx"}
    THEN [status |-> "noop", out |-> file]
    ELSE [status |-> "ok",
          out |-> [file EXCEPT !.members =
                      IF ScriptCopyMembers(file.members) = file.members
                      THEN file.members \o <<MarkerMember>>
                      ELSE ScriptCopyMembers(file.members)]]

\* ------------------------------------------- scan_file.py, the PDF rules
\* the deep scan stops after this many objects
MAX_CHECKED == 1000

\* PDF names as character strings
N_OpenAction == <<"/", "O", "p", "e", "n", "A", "c", "t", "i", "o", "n">>
N_AA == <<"/", "A", "A">>
N_Names == <<"/", "N", "a", "m", "e", "s">>
N_JavaScript == <<"/", "J", "a", "v", "a", "S", "c", "r", "i", "p", "t">>
N_JS == <<"/", "J", "S">>
N_S == <<"/", "S">>
N_Launch == <<"/", "L", "a", "u", "n", "c", "h">>
N_SubmitForm == <<"/", "S", "u", "b", "m", "i", "t", "F", "o", "r", "m">>
N_Type == <<"/", "T", "y", "p", "e">>

PDF_JS_PATTERNS == <<N_JavaScript, N_JS, N_AA, N_OpenAction, N_Launch>>

\* indirect objects: a dictionary is its keys and the name under /S ("" when
\* there is none); an array is not a pikepdf.Dictionary
PdfObjects ==
    { [dict |-> TRUE, keys |-> {N_Type}, s |-> <<>>],
      [dict |-> FALSE, keys |-> {}, s |-> <<>>],
      [dict |-> TRUE, keys |-> {N_JS, N_S}, s |-> N_JavaScript],
      [dict |-> TRUE, keys |-> {N_S}, s |-> N_Launch],
      [dict |-> TRUE, keys |-> {N_S}, s |-> N_SubmitForm],
      [dict |-> TRUE, keys |-> {N_S}, s |-> N_Type] }

PlainObject == [dict |-> TRUE, keys |-> {N_Type}, s |-> <<>>]

\* catalogs: the keys of the root dictionary and whether its /Names
\* dictionary has a /JavaScript entry
PdfRoots ==
    { [keys |-> ks, namesJs |-> nj] :
        ks \in SUBSET {N_OpenAction, N_AA, N_Names}, nj \in BOOLEAN }

\* a PDF file: whether pikepdf.open reads it, its catalog, and count
\* objects of which the one at position pos is special, the others plain
PdfFiles ==
    { f \in [opens : BOOLEAN, root : PdfRoots,
             count : {1, MAX_CHECKED, MAX_CHECKED + 1},
             pos : {1, MAX_CHECKED, MAX_CHECKED + 1}, special : PdfObjects] :
        /\ f.pos <= f.count
        /\ f.root.namesJs => N_Names \in f.root.keys }

ObjectAt(f, k) == IF k = f.pos THEN f.special ELSE PlainObject

\* the names written in the file, for a search in the raw bytes
RawNames(f) ==
    f.root.keys \cup (IF f.root.namesJs THEN {N_JavaScript} ELSE {})
    \cup f.special.keys \cup {f.special.s} \cup {N_Type}

\* re.search(pat, data)
SearchRaw(pat, f) == \E n \in RawNames(f) : Contains(n, pat)

\* the two tests on a dictionary object in the deep scan
IsScriptObject(obj) ==
    /\ obj.dict
    /\ \/ N_JS \in obj.keys \/ N_JavaScript \in obj.keys
       \/ (N_S \in obj.keys /\ obj.s \in {N_JavaScript, N_Launch, N_SubmitForm})

\* variant: the loop has no cap
HitsCap_never(checked) == FALSE

\* "if checked > 1000: break"
HitsCap(checked) == checked > MAX_CHECKED

\* the iterations of "for obj in pdf.objects" that leave the loop: the cap,
\* or an object that sets found_deep
LoopExits(f) ==
    {k \in 1..f.count : HitsCap(k) \/ IsScriptObject(ObjectAt(f, k))}

FirstExit(f) == CHOOSE k \in LoopExits(f) : \A m \in LoopExits(f) : k <= m

\* the deep scan: found_deep, the final value of checked, and the number of
\* objects the tests ran on
DeepScan(f) ==
    IF LoopExits(f) = {}
    THEN [found_deep |-> FALSE, checked |-> f.count, examined |-> f.count]
    ELSE IF HitsCap(FirstExit(f))
    THEN [found_deep |-> FALSE, checked |-> FirstExit(f), examined |-> FirstExit(f) - 1]
    ELSE [found_deep |-> TRUE, checked |-> FirstExit(f), examined |-> FirstExit(f)]

\* the pikepdf pass: catalog triggers, Names tree, deep scan
PdfStructuralPass(f) ==
    (IF N_OpenAction \in f.root.keys \/ N_AA \in f.root.keys
     THEN <<Finding("pdf_script_js", "high")>> ELSE <<>>)
    \o (IF N_Names \in f.root.keys /\ f.root.namesJs
        THEN <<Finding("pdf_script_js", "high")>> ELSE <<>>)
    \o (IF DeepScan(f).found_deep
        THEN <<Finding("pdf_script_js", "high")>> ELSE <<>>)

\* the except branch: one finding for the first pattern found
PdfRegexPass(f) ==
    IF \E k \in DOMAIN PDF_JS_PATTERNS : SearchRaw(PDF_JS_PATTERNS[k], f)
    THEN <<Finding("pdf_script_js", "high")>> ELSE <<>>

\* the ".pdf" branch of _extract_findings and the closing default; pikepdf
\* says whether the import succeeds
ExtractPdfFindings(f, pikepdf) ==
    [raised |-> ~(pikepdf /\ f.opens),
     scan |-> IF pikepdf /\ f.opens THEN DeepScan(f)
              ELSE [found_deep |-> FALSE, checked |-> 0, examined |-> 0],
     findings |->
        IF (IF pikepdf /\ f.opens THEN PdfStructuralPass(f) ELSE PdfRegexPass(f)) = <<>>
        THEN <<Finding("no_obvious_tricks", "info")>>
        ELSE IF pikepdf /\ f.opens THEN PdfStructuralPass(f) ELSE PdfRegexPass(f)]

\* ------------------------------------------- api_server.py, step by step
\* POST /api/scan requests that get as far as storing the upload
MaxScans == 2

\* the users behind the bearer tokens (str(current_user["_id"]))
ApiUsers == {"u1", "u2"}

\* the uploads: a PDF with a script, a plain RTF, and no bytes at all
ApiArtifacts ==
    { [name |-> [stem |-> "a", suffix |-> ".pdf"],
       data |-> [wf |-> TRUE, body |-> <<"js">>, cdr |-> FALSE, marks |-> 0], ent |-> 0],
      [name |-> [stem |-> "a", suffix |-> ".rtf"],
       data |-> [wf |-> FALSE, body |-> <<"txt">>, cdr |-> FALSE, marks |-> 0], ent |-> 0],
      [name |-> [stem |-> "a", suffix |-> ".rtf"],
       data |-> [wf |-> FALSE, body |-> <<>>, cdr |-> FALSE, marks |-> 0], ent |-> 0] }

ApiEnv == [fault |-> "none", libs |-> TRUE]

\* variant: the scans row is written before the report is stored
ScanFlow_rowfirst ==
    <<"save_upload", "scan", "sanitize", "rescan", "save_clean",
      "insert_row", "save_report", "respond">>

\* the blocks of scan_endpoint in program order
ScanFlow ==
    <<"save_upload", "scan", "sanitize", "rescan", "save_clean",
      "save_report", "insert_row", "respond">>

\* the block that follows a block
StepAfter(step) ==
    ScanFlow[(CHOOSE i \in DOMAIN ScanFlow : ScanFlow[i] = step) + 1]

\* the value a block left in its local variable (upload_id, clean_id,
\* report_id); 0 when the block has not run
IdOf(tr, step) ==
    IF \E i \in DOMAIN tr : tr[i].step = step
    THEN tr[CHOOSE i \in DOMAIN tr : tr[i].step = step].id
    ELSE 0

\* san_out of block 3 and the re-scan of block 4, from the first report
ApiSanOut(art, raw_result) ==
    EndpointSanitize(raw_result, get_extension(art.name), art.data, ApiEnv)

ApiCleanScan(art, raw_result) ==
    scan_bytes(ApiSanOut(art, raw_result).clean_bytes,
               EntropyAfter(ApiSanOut(art, raw_result).clean_bytes, art.ent),
               [stem |-> "sha_clean", suffix |-> art.name.suffix], ApiEnv).rep

\* raise HTTPException(status_code=500, detail=...)
Http500(detail) == [status |-> 500, detail |-> detail]

\* variant: the owner is not compared
OwnedBy_anyone(meta, current_user) == TRUE

\* meta.get("user_id") == str(current_user["_id"])
OwnedBy(meta, current_user) == meta.user_id = current_user

\* open_download_stream(fid) and the owner check of get_report and
\* download_clean: the stored object, or 404
FetchOwned(bucket, id, current_user) ==
    IF id \notin DOMAIN bucket THEN [status |-> 404]
    ELSE IF ~OwnedBy(bucket[id], current_user) THEN [status |-> 404]
    ELSE [status |-> 200, body |-> bucket[id]]

\* ------------------------------------------------- sanitizer functions
\* sanitize_rtf_bytes(data) on a text
SanitizeRtfCall ==
    /\ pc = "idle"
    /\ \E txt \in RtfTexts :
        /\ req' = [op |-> "sanitize_rtf_bytes", data |-> txt]
        /\ resp' = [out |-> sanitize_rtf_text(txt)]
    /\ report' = NoReport
    /\ sanLog' = <<>>
    /\ pc' = "done"
    /\ UNCHANGED serverVars

\* _scrub_bytes_safely(data, tokens)
ScrubCall ==
    /\ pc = "idle"
    /\ \E data \in ScrubBuffers, tokens \in ScrubTokenLists :
        /\ req' = [op |-> "_scrub_bytes_safely", data |-> data, tokens |-> tokens]
        /\ resp' = [out |-> ScrubBytes(data, tokens)]
    /\ report' = NoReport
    /\ sanLog' = <<>>
    /\ pc' = "done"
    /\ UNCHANGED serverVars

\* sanitize_ooxml on an archive, by either of the two modules
SanitizeOoxmlCall ==
    /\ pc = "idle"
    /\ \E ms \in Archives, suffix \in {".docx", ".doc"}, zip \in BOOLEAN,
          impl \in {"sanitizers", "scripts"} :
        /\ zip \/ (ms = <<>> /\ impl = "sanitizers")
        /\ req' = [op |-> "sanitize_ooxml", impl |-> impl, suffix |-> suffix,
                   data |-> [zip |-> zip, members |-> ms]]
        /\ \E r \in {IF impl = "sanitizers"
                     THEN sanitize_ooxml_file(suffix, [zip |-> zip, members |-> ms])
                     ELSE script_sanitize_ooxml(suffix, [zip |-> zip, members |-> ms])} :
              resp' = [status |-> r.status, out |-> r.out]
    /\ report' = NoReport
    /\ sanLog' = <<>>
    /\ pc' = "done"
    /\ UNCHANGED serverVars

\* --------------------------------------------- utils/predict_only.py
\* how the upload starts: %PDF, {\rtf, the OLE compound file signature, a
\* zip local header, or none of them
Magics == {"%PDF", "{\\rtf", "OLE", "PK", "other"}

\* guess_ext_from_bytes: the extension for a file without one; zipOk says
\* that the file opens as a zip archive with a [Content_Types].xml member
\* (word/ parts); "" is None
guess_ext_from_bytes(magic, zipOk) ==
    IF magic = "%PDF" THEN ".pdf"
    ELSE IF magic = "{\\rtf" THEN ".rtf"
    ELSE IF magic = "OLE" THEN ".xls"
    ELSE IF magic = "PK" /\ zipOk THEN ".docx"
    ELSE ""

\* what the scan endpoint derives from an upload under a given name
FormatAnalysis(d, ent, name, env) ==
    [findings |-> scan_bytes(d, ent, name, env).rep.findings,
     verdict |-> scan_bytes(d, ent, name, env).rep.verdict,
     engine |-> sanitize_with_available_tools(get_extension(name), d, env).sanitizer.engine]

\* the same bytes submitted to POST /scan twice: under a name without an
\* extension, and under a name with the extension their magic stands for
ScanUnderBothNames ==
    /\ pc = "idle"
    /\ \E magic \in Magics, d \in RawData, ent \in EntLevels, env \in Envs :
        /\ ~IsEmptyBytes(d)
        /\ d.wf => magic \in {"%PDF", "PK"}
        /\ req' = [op |-> "scan_both_names", magic |-> magic, data |-> d,
                   ent |-> ent, env |-> env,
                   guess |-> guess_ext_from_bytes(magic, d.wf)]
        /\ resp' = [bare |-> FormatAnalysis(d, ent, [stem |-> "a", suffix |-> ""], env),
                    named |-> FormatAnalysis(d, ent,
                                 [stem |-> "a",
                                  suffix |-> guess_ext_from_bytes(magic, d.wf)], env)]
    /\ report' = NoReport
    /\ sanLog' = <<>>
    /\ pc' = "done"
    /\ UNCHANGED serverVars

\* the bytes wrapper of sanitizers/ for a format
SanitizeBytes(fmt, d) ==
    CASE fmt = "pdf"   -> sanitize_pdf_bytes(d)
      [] fmt = "ooxml" -> sanitize_ooxml_bytes(d)
      [] OTHER         -> sanitize_rtf_bytes(d)

\* a sanitizer applied to an upload and again to its own output
SanitizeTwiceCall ==
    /\ pc = "idle"
    /\ \E fmt \in {"pdf", "ooxml", "rtf"}, d \in RawData :
        /\ d.wf => fmt # "rtf"
        /\ req' = [op |-> "sanitize_twice", fmt |-> fmt, data |-> d]
        /\ resp' = [once |-> SanitizeBytes(fmt, d),
                    twice |-> SanitizeBytes(fmt, SanitizeBytes(fmt, d))]
    /\ report' = NoReport
    /\ sanLog' = <<>>
    /\ pc' = "done"
    /\ UNCHANGED serverVars

\* _extract_findings(data, ".pdf") on a PDF file
ExtractPdfFindingsCall ==
    /\ pc = "idle"
    /\ \E f \in PdfFiles, pikepdf \in BOOLEAN :
        /\ req' = [op |-> "_extract_findings", pdf |-> f, pikepdf |-> pikepdf]
        /\ \E r \in {ExtractPdfFindings(f, pikepdf)} :
              resp' = [raised |-> r.raised, scan |-> r.scan, findings |-> r.findings]
    /\ report' = NoReport
    /\ sanLog' = <<>>
    /\ pc' = "done"
    /\ UNCHANGED serverVars

\* --------------------------------- sanitize_with_available_tools, by stage
\* The sanitizers are callees of sanitize_with_available_tools: what each of
\* them does on one call is an input here.  Byte strings are opaque values
\* compared by sha256_hash, taken to be injective.
ToolBytes == {"b0", "b1"}

ToolExts == {".pdf", ".docx", ".rtf", ".txt", ""}

\* the bytes-style function: not imported, returns bytes, or raises
BytesStyleOutcomes ==
    {[kind |-> "absent"], [kind |-> "raises"]}
        \cup {[kind |-> "bytes", out |-> b] : b \in ToolBytes}

\* the path-based function: not imported, writes out_path and returns,
\* returns without writing out_path, or raises before/after writing out_path
PathStyleOutcomes ==
    {[kind |-> "absent"], [kind |-> "no_file"], [kind |-> "raises"]}
        \cup {[kind |-> k, out |-> b] : k \in {"writes", "raises_written"}, b \in ToolBytes}

ToolFamily(ext) ==
    IF ext = ".pdf" THEN "pdf"
    ELSE IF ext \in {".docx", ".pptx", ".xlsx"} THEN "ooxml"
    ELSE IF ext = ".rtf" THEN "rtf"
    ELSE "none"

\* "1) bytes-style": clean and meta["engine"] are set together, only when the
\* function returned bytes; a raise leaves meta["error"]
ToolsBytesStage(ext, s1) ==
    IF ToolFamily(ext) # "none" /\ s1.kind = "bytes"
    THEN [clean |-> Some(s1.out),
          engine |-> "sanitize_" \o ToolFamily(ext) \o "_bytes", error |-> FALSE]
    ELSE [clean |-> None, engine |-> "unset",
          error |-> (ToolFamily(ext) # "none" /\ s1.kind = "raises")]

\* "2) path-based", entered "if clean is None": meta["engine"] is assigned
\* after the call returns; the except branch reads out_path if it exists and
\* else takes the content
ToolsPathStage(ext, content, st, s2) ==
    IF ~IsNone(st.clean) \/ ToolFamily(ext) = "none" \/ s2.kind = "absent"
    THEN st
    ELSE IF s2.kind = "writes"
    THEN [clean |-> Some(s2.out), engine |-> "sanitize_" \o ToolFamily(ext),
          error |-> st.error]
    ELSE IF s2.kind = "no_file"
    THEN [clean |-> None, engine |-> "sanitize_" \o ToolFamily(ext),
          error |-> st.error]
    ELSE IF s2.kind = "raises_written"
    THEN [clean |-> Some(s2.out), engine |-> st.engine, error |-> TRUE]
    ELSE [clean |-> Some(content), engine |-> st.engine, error |-> TRUE]

\* the closing "if clean is None" and meta["changed"]
ToolsResult(content, st) ==
    [clean_bytes |-> IF IsNone(st.clean) THEN content ELSE st.clean[1],
     sanitizer |-> [engine |-> IF IsNone(st.clean) THEN "passthrough" ELSE st.engine,
                    changed |-> (IF IsNone(st.clean) THEN content ELSE st.clean[1]) # content],
     error |-> st.error]

SanitizeWithTools(ext, content, s1, s2) ==
    ToolsResult(content,
        ToolsPathStage(ext, content, ToolsBytesStage(ext, s1), s2))

\* sanitize_with_available_tools(ext, content, filename)
SanitizeWithToolsCall ==
    /\ pc = "idle"
    /\ \E ext \in ToolExts, content \in ToolBytes,
          s1 \in BytesStyleOutcomes, s2 \in PathStyleOutcomes :
        /\ req' = [op |-> "sanitize_with_available_tools", ext |-> ext,
                   content |-> content, bytes_style |-> s1, path_style |-> s2]
        /\ resp' = SanitizeWithTools(ext, content, s1, s2)
    /\ report' = NoReport
    /\ sanLog' = <<>>
    /\ pc' = "done"
    /\ UNCHANGED serverVars

SanNext ==
    \/ SanitizeRtfCall
    \/ ScrubCall
    \/ SanitizeOoxmlCall
    \/ ScanUnderBothNames
    \/ SanitizeTwiceCall
    \/ ExtractPdfFindingsCall
    \/ SanitizeWithToolsCall
    \/ Return

SanSpec == Init /\ [][SanNext]_vars

\* C18: the text sanitize_rtf_bytes returns holds no \object...\endobj span
\* and none of the control words \objdata, \objclass, \field, \pict, in
\* any letter case, whatever text the removals joined
C18_NoObjectNoControlWord ==
    Done("sanitize_rtf_bytes") =>
        \A i \in 1..Len(resp.out) :
            /\ ~(/\ ControlWordAt(resp.out, i, ObjectWord)
                 /\ \E j \in (i + 7)..Len(resp.out) :
                        ControlWordAt(resp.out, j, EndobjWord))
            /\ \A kw \in RtfControlWords : ~ControlWordAt(resp.out, i, kw)

\* a text with an object span and an upper-case control word, of which
\* something is left after both removals
C18_Witness ==
    /\ Done("sanitize_rtf_bytes")
    /\ \E i \in 1..Len(req.data) : ObjectSpanEnd(req.data, i) > 0
    /\ \E i \in 1..Len(req.data) :
          ControlWordAt(req.data, i, <<"o", "b", "j", "d", "a", "t", "a">>)
    /\ resp.out # <<>>

\* C19: _scrub_bytes_safely returns a buffer of the length of its input, and
\* a byte that changed lies inside an occurrence of one of the tokens
C19_ScrubKeepsLength ==
    Done("_scrub_bytes_safely") =>
        /\ Len(resp.out) = Len(req.data)
        /\ \A i \in 1..Len(req.data) :
              (i > Len(resp.out) \/ resp.out[i] # req.data[i]) =>
                 \E k \in DOMAIN req.tokens :
                    \E p \in 1..i :
                       /\ i <= p + Len(req.tokens[k]) - 1
                       /\ TokenAt(req.data, p, req.tokens[k])

\* a keyword of three characters neutralized between two untouched bytes
C19_Witness ==
    /\ Done("_scrub_bytes_safely")
    /\ Len(req.data) >= 4
    /\ \E i \in 2..(Len(req.data) - 1) :
          /\ resp.out[i] = "_"
          /\ resp.out[i - 1] = "/"
    /\ resp.out[1] = req.data[1]
    /\ resp.out[Len(resp.out)] = req.data[Len(req.data)]

\* an entry of the output that the package reader treats as a VBA project,
\* an embedded object, or a relationship part that still points outside
ActiveMember(m) ==
    \/ EndsWith(Lower(m.name), <<"v", "b", "a", "p", "r", "o", "j", "e", "c", "t", ".", "b", "i", "n">>)
    \/ Contains(Lower(m.name), <<"/", "e", "m", "b", "e", "d", "d", "i", "n", "g", "s", "/">>)
    \/ /\ EndsWith(Lower(m.name), <<".", "r", "e", "l", "s">>)
       /\ \E k \in DOMAIN m.rels : m.rels[k].mode = "External"

\* C17: after a successful sanitize_ooxml the output archive has no
\* vbaProject.bin entry, no entry under an embeddings/ folder and no
\* relationship with TargetMode External, whatever the letter case of the names
C17_NoActiveMemberLeft ==
    (Done("sanitize_ooxml") /\ resp.status = "ok") =>
        \A k \in DOMAIN resp.out.members : ~ActiveMember(resp.out.members[k])

\* C20: bytes with a known magic uploaded under a name without extension get
\* the findings, the verdict and the sanitizer of the same bytes uploaded
\* with the matching extension
C20_SniffedLikeNamed ==
    (Done("scan_both_names") /\ req.guess # "") => resp.bare = resp.named

\* the tokens a format's sanitizer is there to remove
DangerousTokens(fmt) ==
    CASE fmt = "pdf"   -> {"js"}
      [] fmt = "ooxml" -> {"vba"}
      [] OTHER         -> {"pict", "object"}

\* bytes with no dangerous construct for their format
CleanFor(fmt, d) == Range(d.body) \cap DangerousTokens(fmt) = {}

C21_UnknownIsUnsupported ==
    (Scanned /\ _ext_from_name(req.art.name) \notin {".pdf", ".rtf"} \cup OOXML_EXTS) =>
        /\ \E i \in DOMAIN report.findings : report.findings[i].id = "unsupported"
        /\ \A i \in DOMAIN report.findings :
              report.findings[i].id \notin
                  {"pdf_script_js", "ooxml_vba_macro", "rtf_embedded_object"}
        /\ IsNone(report.clean_bytes)

\* C22: when the structural pass raises, the regex pass flags every file in
\* which the structural pass would have flagged a token
C22_FallbackSameTokens ==
    (Done("_extract_findings") /\ resp.raised /\ PdfStructuralPass(req.pdf) # <<>>) =>
        \E i \in DOMAIN resp.findings : resp.findings[i].id = "pdf_script_js"

RemovableMember(m) ==
    \/ EndsWith(Lower(m.name), <<"v", "b", "a", "p", "r", "o", "j", "e", "c", "t", ".", "b", "i", "n">>)
    \/ EndsWith(Lower(m.name), <<"v", "b", "a", "p", "r", "o", "j", "e", "c", "t", "s", "i", "g", "n", "a", "t", "u", "r", "e", ".", "b", "i", "n">>)
    \/ Contains(Lower(m.name), <<"/", "e", "m", "b", "e", "d", "d", "i", "n", "g", "s", "/">>)

\* the entries of an archive that are to stay, in order
StayingMembers(ms) == SelectSeq(ms, LAMBDA m : ~RemovableMember(m))

\* the relationships of a part without the external ones
InternalRels(rels) == SelectSeq(rels, LAMBDA r : r.mode # "External")

\* C24: the entries of the input that are no vbaProject / embeddings entry
\* are in the output once each, in input order, under their names, with their
\* bytes, or for a .rels part with its relationships less the external ones
C24_EverythingElsePreserved ==
    (Done("sanitize_ooxml") /\ req.impl = "sanitizers" /\ resp.status = "ok") =>
        /\ Len(StayingMembers(resp.out.members)) = Len(StayingMembers(req.data.members))
        /\ \A k \in DOMAIN StayingMembers(req.data.members) :
              \/ StayingMembers(resp.out.members)[k] = StayingMembers(req.data.members)[k]
              \/ /\ StayingMembers(resp.out.members)[k].name
                      = StayingMembers(req.data.members)[k].name
                 /\ EndsWith(Lower(StayingMembers(req.data.members)[k].name),
                             <<".", "r", "e", "l", "s">>)
                 /\ StayingMembers(resp.out.members)[k]
                      = [StayingMembers(req.data.members)[k] EXCEPT
                            !.rels = InternalRels(StayingMembers(req.data.members)[k].rels)]

\* POST /api/scan: the upload is read; an empty one is refused
ApiScanBegin ==
    /\ pc = "idle"
    /\ Len(store.uploads) < MaxScans
    /\ \E user \in ApiUsers, art \in ApiArtifacts :
        /\ req' = [op |-> "api_scan_steps", user |-> user, art |-> art]
        /\ IF IsEmptyBytes(art.data)
           THEN /\ resp' = [status |-> 400]
                /\ pc' = "done"
           ELSE /\ resp' = NoResp
                /\ pc' = ScanFlow[1]
    /\ trace' = <<>>
    /\ UNCHANGED <<report, sanLog, store, procs>>

\* 1) save the original upload, or answer 500
SaveUpload ==
    /\ pc = "save_upload"
    /\ \/ /\ store' = [store EXCEPT !.uploads = Append(@, [user_id |-> req.user])]
          /\ trace' = Append(trace, [step |-> "save_upload", id |-> Len(store.uploads) + 1])
          /\ pc' = StepAfter("save_upload")
          /\ UNCHANGED resp
       \/ /\ resp' = Http500("Failed saving upload")
          /\ pc' = "done"
          /\ UNCHANGED <<store, trace>>
    /\ UNCHANGED <<req, report, sanLog, procs>>

\* 2) scan the original
ScanOriginal ==
    /\ pc = "scan"
    /\ report' = scan_bytes(req.art.data, req.art.ent, req.art.name, ApiEnv).rep
    /\ trace' = Append(trace, [step |-> "scan", id |-> 0])
    /\ pc' = StepAfter("scan")
    /\ UNCHANGED <<req, resp, sanLog, store, procs>>

\* 3) sanitize
SanitizeUpload ==
    /\ pc = "sanitize"
    /\ trace' = Append(trace, [step |-> "sanitize", id |-> 0,
                               engine |-> ApiSanOut(req.art, report).sanitizer.engine])
    /\ pc' = StepAfter("sanitize")
    /\ UNCHANGED <<req, report, resp, sanLog, store, procs>>

\* 4) re-scan the sanitized bytes
RescanClean ==
    /\ pc = "rescan"
    /\ trace' = Append(trace, [step |-> "rescan", id |-> 0,
                               verdict |-> ApiCleanScan(req.art, report).verdict])
    /\ pc' = StepAfter("rescan")
    /\ UNCHANGED <<req, report, resp, sanLog, store, procs>>

\* 5) save the clean file, or answer 500
SaveClean ==
    /\ pc = "save_clean"
    /\ \/ /\ store' = [store EXCEPT !.clean =
                          Append(@, [user_id |-> req.user,
                                     source_upload_id |-> IdOf(trace, "save_upload")])]
          /\ trace' = Append(trace, [step |-> "save_clean", id |-> Len(store.clean) + 1])
          /\ pc' = StepAfter("save_clean")
          /\ UNCHANGED resp
       \/ /\ resp' = Http500("Failed saving clean file")
          /\ pc' = "done"
          /\ UNCHANGED <<store, trace>>
    /\ UNCHANGED <<req, report, sanLog, procs>>

\* 5) build and save the report, or answer 500
SaveReport ==
    /\ pc = "save_report"
    /\ \/ /\ store' = [store EXCEPT !.reports =
                          Append(@, [user_id |-> req.user,
                                     upload_id |-> IdOf(trace, "save_upload"),
                                     clean_id |-> IdOf(trace, "save_clean")])]
          /\ trace' = Append(trace, [step |-> "save_report", id |-> Len(store.reports) + 1])
          /\ pc' = StepAfter("save_report")
          /\ UNCHANGED resp
       \/ /\ resp' = Http500("Failed saving report")
          /\ pc' = "done"
          /\ UNCHANGED <<store, trace>>
    /\ UNCHANGED <<req, report, sanLog, procs>>

\* 6) insert the scans row, or answer 500
InsertScanRow ==
    /\ pc = "insert_row"
    /\ \/ /\ store' = [store EXCEPT !.scans =
                          Append(@, [user_id |-> req.user,
                                     upload_id |-> IdOf(trace, "save_upload"),
                                     clean_id |-> IdOf(trace, "save_clean"),
                                     report_id |-> IdOf(trace, "save_report")])]
          /\ trace' = Append(trace, [step |-> "insert_row", id |-> Len(store.scans) + 1])
          /\ pc' = StepAfter("insert_row")
          /\ UNCHANGED resp
       \/ /\ resp' = Http500("Failed writing scans row")
          /\ pc' = "done"
          /\ UNCHANGED <<store, trace>>
    /\ UNCHANGED <<req, report, sanLog, procs>>

\* the JSON response
RespondScan ==
    /\ pc = "respond"
    /\ resp' = [status |-> 200,
                report_id |-> IdOf(trace, "save_report"),
                download_api |-> IdOf(trace, "save_clean"),
                scan_id |-> IdOf(trace, "save_upload")]
    /\ trace' = Append(trace, [step |-> "respond", id |-> 0])
    /\ pc' = "done"
    /\ UNCHANGED <<req, report, sanLog, store, procs>>

\* GET /api/report/{report_id}.json
GetReport ==
    /\ pc = "idle"
    /\ \E user \in ApiUsers, id \in 1..(MaxScans + 1) :
        /\ req' = [op |-> "get_report", user |-> user, id |-> id]
        /\ resp' = FetchOwned(store.reports, id, user)
    /\ pc' = "done"
    /\ UNCHANGED <<report, sanLog, store, trace, procs>>

\* GET /api/download/{file_id}
DownloadClean ==
    /\ pc = "idle"
    /\ \E user \in ApiUsers, id \in 1..(MaxScans + 1) :
        /\ req' = [op |-> "download_clean", user |-> user, id |-> id]
        /\ resp' = FetchOwned(store.clean, id, user)
    /\ pc' = "done"
    /\ UNCHANGED <<report, sanLog, store, trace, procs>>

ApiNext ==
    \/ ApiScanBegin
    \/ SaveUpload
    \/ ScanOriginal
    \/ SanitizeUpload
    \/ RescanClean
    \/ SaveClean
    \/ SaveReport
    \/ InsertScanRow
    \/ RespondScan
    \/ GetReport
    \/ DownloadClean
    \/ Return

ApiSpec == Init /\ [][ApiNext]_vars

\* the flow the docstring of scan_endpoint documents
DocumentedFlow ==
    <<"save_upload", "scan", "sanitize", "rescan", "save_clean",
      "save_report", "insert_row", "respond">>

\* C25: the steps of a POST /api/scan happen in the documented order, a scans
\* row references an upload, a clean file and a report that are stored, and a
\* 200 answer names a row that is written
C25_StepsInDocumentedOrder ==
    /\ \A i \in DOMAIN trace : trace[i].step = DocumentedFlow[i]
    /\ \A k \in DOMAIN store.scans :
          /\ store.scans[k].upload_id \in DOMAIN store.uploads
          /\ store.scans[k].clean_id \in DOMAIN store.clean
          /\ store.scans[k].report_id \in DOMAIN store.reports
          /\ store.reports[store.scans[k].report_id].clean_id = store.scans[k].clean_id
          /\ store.clean[store.scans[k].clean_id].source_upload_id
                = store.scans[k].upload_id
    /\ (Done("api_scan_steps") /\ resp.status = 200) =>
          \E k \in DOMAIN store.scans :
              /\ store.scans[k].upload_id = resp.scan_id
              /\ store.scans[k].report_id = resp.report_id
              /\ store.scans[k].clean_id = resp.download_api

\* a second scan answered 200 after an earlier one failed to store its
\* report: two uploads, two clean files, one report, one row
C25_Witness ==
    /\ Done("api_scan_steps")
    /\ resp.status = 200
    /\ Len(trace) = 8
    /\ Len(store.uploads) = 2
    /\ Len(store.reports) = 1
    /\ Len(store.scans) = 1
    /\ store.scans[1].upload_id = 2

\* C28: GET /api/report/{id}.json and GET /api/download/{id} return a stored
\* object only to the user it belongs to, and answer 404 without content to
\* anyone else
C28_OnlyOwnerReads ==
    /\ Done("get_report") =>
          IF req.id \in DOMAIN store.reports /\ store.reports[req.id].user_id = req.user
          THEN resp.status = 200 /\ resp.body = store.reports[req.id]
          ELSE resp = [status |-> 404]
    /\ Done("download_clean") =>
          IF req.id \in DOMAIN store.clean /\ store.clean[req.id].user_id = req.user
          THEN resp.status = 200 /\ resp.body = store.clean[req.id]
          ELSE resp = [status |-> 404]

\* with reports of both users stored, one asks for the report of the other
C28_Witness ==
    /\ Done("get_report")
    /\ Len(store.reports) = 2
    /\ store.reports[1].user_id # store.reports[2].user_id
    /\ req.id \in DOMAIN store.reports
    /\ store.reports[req.id].user_id # req.user
    /\ resp.status = 404

\* C26: scan_bytes says malicious exactly when (a) a finding has severity
\* high or a script/macro id, (b) a finding has severity medium and the risk
\* score is >= 0.70, or (c) the risk score is >= 0.85; (a) forces the risk
\* score and the rules and meta signals to 1.0, (b) and (c) leave the blended
\* risk score as it is
C26_VerdictLadder ==
    Scanned =>
        IF \E i \in DOMAIN report.findings :
              \/ report.findings[i].severity = "high"
              \/ report.findings[i].id \in {"pdf_script_js", "ooxml_macro", "rtf_object"}
        THEN /\ report.verdict = "malicious"
             /\ report.risk_score = ONE
             /\ report.signals.P_RULES = ONE
             /\ report.signals.P_META = ONE
        ELSE /\ report.risk_score = BlendRisk(report.signals)
             /\ report.verdict =
                  IF \/ /\ \E i \in DOMAIN report.findings :
                              report.findings[i].severity = "medium"
                        /\ report.risk_score >= 700000
                     \/ report.risk_score >= 850000
                  THEN "malicious" ELSE "benign"

\* case (b): suspicious strings in a high-entropy file, no signature
C26_Witness ==
    /\ Scanned
    /\ \A i \in DOMAIN report.findings : report.findings[i].severity # "high"
    /\ \E i \in DOMAIN report.findings : report.findings[i].severity = "medium"
    /\ report.risk_score >= 700000
    /\ report.risk_score < 850000
    /\ report.risk_score = BlendRisk(report.signals)
    /\ report.verdict = "malicious"

\* a sanitizer produced the bytes of the call: the bytes-style function
\* returned bytes, or else the path-based function wrote its output file
ToolProducedOutput ==
    /\ ToolFamily(req.ext) # "none"
    /\ \/ req.bytes_style.kind = "bytes"
       \/ req.path_style.kind \in {"writes", "raises_written"}

\* C27: the result of sanitize_with_available_tools always names an engine,
\* the engine is "passthrough" when no sanitizer produced output (both
\* sanitizers raising included) and the bytes are then the original, and
\* "changed" is true exactly when the returned bytes differ from the input
C27_EngineNamesProducer ==
    Done("sanitize_with_available_tools") =>
        /\ resp.sanitizer.engine # "unset"
        /\ ~ToolProducedOutput =>
              (resp.sanitizer.engine = "passthrough" /\ resp.clean_bytes = req.content)
        /\ resp.sanitizer.changed <=> (resp.clean_bytes # req.content)

\* ------------------------------------------------------------------ auth.py
\* /api/auth/signup, /login and /oauth-login, served concurrently: a handler
\* runs up to its next database call that another request can overtake
\* (find_one, then insert_one).  users is the collection with its unique
\* index on "email"; a user's _id is its position in the collection.

\* the "email" of a request body, one character per element
EmailInputs == {<<"a">>, <<"A">>, <<"b">>, <<>>}

PasswordInputs == {"", "pw1", "pw2"}

\* bcrypt, without the salt
hash_password(pw) == <<"bcrypt", pw>>

verify_password(pw, hashed) == hashed = hash_password(pw)

\* find_one({"email": email}): the _id of the user, 0 for None
_get_user_by_email(users, email) ==
    IF \E i \in DOMAIN users : users[i].email = email
    THEN CHOOSE i \in DOMAIN users : users[i].email = email
    ELSE 0

create_access_token(user_id, email) == [sub |-> user_id, email |-> email]

\* the answer a request got: the status, and the token of a 200
AuthResponse(op, email, pw, status, uid, created) ==
    [pc |-> "responded", op |-> op, email |-> email, password |-> pw,
     status |-> status, created |-> created,
     token |-> IF status = 200 THEN Some(create_access_token(uid, email)) ELSE None]

\* signup, up to "existing = await _get_user_by_email(email)" and the 409
SignupFind(p) ==
    /\ procs[p].pc = "idle"
    /\ \E e \in EmailInputs, pw \in PasswordInputs :
        \E email \in {Lower(e)} :
            procs' = [procs EXCEPT ![p] =
                IF email = <<>> \/ pw = ""
                THEN AuthResponse("signup", email, pw, 400, 0, FALSE)
                ELSE IF _get_user_by_email(store.users, email) # 0
                THEN AuthResponse("signup", email, pw, 409, 0, FALSE)
                ELSE [pc |-> "signup_insert", op |-> "signup",
                      email |-> email, password |-> pw]]
    /\ UNCHANGED <<pc, req, report, resp, sanLog, store, trace>>

\* signup, "res = await db().users.insert_one(doc)" and the token: the
\* unique index refuses a second document with the email, and the
\* DuplicateKeyError leaves the handler as a 500
SignupInsert(p) ==
    /\ procs[p].pc = "signup_insert"
    /\ IF _get_user_by_email(store.users, procs[p].email) # 0
       THEN /\ procs' = [procs EXCEPT ![p] =
                    AuthResponse("signup", procs[p].email, procs[p].password,
                                 500, 0, FALSE)]
            /\ store' = store
       ELSE /\ store' = [store EXCEPT !.users = Append(@,
                    [email |-> procs[p].email,
                     password_hash |-> hash_password(procs[p].password)])]
            /\ procs' = [procs EXCEPT ![p] =
                    AuthResponse("signup", procs[p].email, procs[p].password,
                                 200, Len(store.users) + 1, TRUE)]
    /\ UNCHANGED <<pc, req, report, resp, sanLog, trace>>

\* login: 401 unless the user exists and the password matches its hash
LoginCall(p) ==
    /\ procs[p].pc = "idle"
    /\ \E e \in EmailInputs, pw \in PasswordInputs :
        \E email \in {Lower(e)} :
            \E user \in {_get_user_by_email(store.users, email)} :
                procs' = [procs EXCEPT ![p] =
                    IF user = 0
                    THEN AuthResponse("login", email, pw, 401, 0, FALSE)
                    ELSE IF \/ IsNone(store.users[user].password_hash)
                            \/ ~verify_password(pw, store.users[user].password_hash)
                    THEN AuthResponse("login", email, pw, 401, 0, FALSE)
                    ELSE AuthResponse("login", email, pw, 200, user, FALSE)]
    /\ UNCHANGED <<pc, req, report, resp, sanLog, store, trace>>

\* oauth_login, up to "user = await _get_user_by_email(email)"; an existing
\* user gets its last_login_at updated and the token
OauthFind(p) ==
    /\ procs[p].pc = "idle"
    /\ \E e \in EmailInputs :
        \E email \in {Lower(e)} :
            \E user \in {_get_user_by_email(store.users, email)} :
                procs' = [procs EXCEPT ![p] =
                    IF email = <<>>
                    THEN AuthResponse("oauth_login", email, "", 400, 0, FALSE)
                    ELSE IF user # 0
                    THEN AuthResponse("oauth_login", email, "", 200, user, FALSE)
                    ELSE [pc |-> "oauth_insert", op |-> "oauth_login",
                          email |-> email, password |-> ""]]
    /\ UNCHANGED <<pc, req, report, resp, sanLog, store, trace>>

\* oauth_login, "res = await db().users.insert_one(doc)" of the new user
\* without a password, and the token
OauthInsert(p) ==
    /\ procs[p].pc = "oauth_insert"
    /\ IF _get_user_by_email(store.users, procs[p].email) # 0
       THEN /\ procs' = [procs EXCEPT ![p] =
                    AuthResponse("oauth_login", procs[p].email, "", 500, 0, FALSE)]
            /\ store' = store
       ELSE /\ store' = [store EXCEPT !.users = Append(@,
                    [email |-> procs[p].email, password_hash |-> None])]
            /\ procs' = [procs EXCEPT ![p] =
                    AuthResponse("oauth_login", procs[p].email, "",
                                 200, Len(store.users) + 1, TRUE)]
    /\ UNCHANGED <<pc, req, report, resp, sanLog, trace>>

\* the answer is sent; the worker takes the next request
AuthReturn(p) ==
    /\ procs[p].pc = "responded"
    /\ procs' = [procs EXCEPT ![p] = IdleProc]
    /\ UNCHANGED <<pc, req, report, resp, sanLog, store, trace>>

AuthNext ==
    \/ \E p \in Procs : SignupFind(p)
    \/ \E p \in Procs : SignupInsert(p)
    \/ \E p \in Procs : LoginCall(p)
    \/ \E p \in Procs : OauthFind(p)
    \/ \E p \in Procs : OauthInsert(p)
    \/ \E p \in Procs : AuthReturn(p)

AuthSpec == Init /\ [][AuthNext]_vars

\* C29: a token whose subject is a user that existed before the request is
\* issued only to a request that carries that user's valid password
C29_TokenAfterCredentialCheck ==
    \A p \in Procs :
        (procs[p].pc = "responded" /\ procs[p].status = 200 /\ ~procs[p].created) =>
            verify_password(procs[p].password,
                            store.users[procs[p].token[1].sub].password_hash)

\* C30: there is at most one user per email, no request ends in an unhandled
\* error, and a signup that created no user was rejected (409 for a
\* registered email), whatever the interleaving of the requests
C30_DuplicateSignupRejected ==
    /\ \A i, j \in DOMAIN store.users :
          store.users[i].email = store.users[j].email => i = j
    /\ \A p \in Procs :
          procs[p].pc = "responded" =>
              /\ procs[p].status # 500
              /\ (procs[p].op = "signup" /\ ~procs[p].created
                  /\ procs[p].email # <<>> /\ procs[p].password # "") =>
                    procs[p].status = 409

====
